---- MODULE Spec2Model ----
(***************************************************************************)
(* URL resolution and enrichment cache pipeline of letterboxd-wrappd:      *)
(* scripts/scrape_tmdb_ids.py, scripts/enrich_critics_list.py and          *)
(* scripts/enrich_curated_lists.py.                                        *)
(*                                                                         *)
(* A URL is a sequence of tokens: the scheme-and-host prefix, "/"          *)
(* separators and path segments.  A regular expression class [^/]+ is a    *)
(* non-empty run of tokens other than "/".                                 *)
(***************************************************************************)
EXTENDS Integers, Sequences, FiniteSets, TLC

VARIABLES
    pipeline,            \* the script that is running
    shortlink_to_film,   \* cache["shortlink_to_film"]
    call,                \* the last resolver call: arguments, result, requests
    film_to_tmdb,        \* cache["film_to_tmdb"]
    cached_at_start,     \* film_to_tmdb as it was when the scrape stage began
    page,                \* what fetching each film page comes to in this run
    index,               \* the movie index: film URL -> its entry
    task,                \* each submitted scrape: pending, running, done, collected
    results,             \* what each finished scrape returned
    doneq,               \* finished scrapes not yet collected, in completion order
    completed,           \* the PROGRESS counter of the stage
    progress,            \* the PROGRESS values the stage has printed, in order
    fetched,             \* the film pages requested so far
    tmdb_movie_data,     \* cache["tmdb_movie_data"]
    films,               \* the External Movie IDs the metadata loop goes over
    run,                 \* 1 for the first run of the script, 2 for the next
    first_run,           \* what the first run did for each film, once it ended
    cache_at_start,      \* tmdb_movie_data as the current run found it
    enriched,            \* what the current run did for each film so far
    mem_doc,             \* the text json.dumps gives for the in-memory cache
    cache_path,          \* the file at the cache path
    tmp_path,            \* the file at the cache path with ".tmp" appended
    flush,               \* the flush under way: its position and its text
    cache_file,          \* the JSON document at the cache path (None: no file)
    lb_file,             \* enrich_curated_lists: the document at LETTERBOXD_CACHE_PATH
    cache_obj,           \* what loading the cache file returned: the cache of the run
    lb_obj,              \* enrich_curated_lists: letterboxd_cache
    loop,                \* where the run is: position, film number, film in hand
    norm,                \* the last call of an identifier normalizer
    urlset,              \* resolve stage: urls, the set of canonical URLs
    uri_map,             \* resolve stage: raw reference -> canonical URL
    stage,               \* resolve stage: where it is, what it printed, the order it collected in
    pool,                \* how many futures of a stage are pending, running, done, collected
    net,                 \* resolve stage: what the requests for each raw reference come to
    member,              \* the last list-membership test: film, reference sets, flag
    main,                \* a run of a script's main: its inputs, where it is, what it did
    list_cache,          \* cache["list_cache"]
    listcall,            \* load_letterboxd_list: the list file, the calls made, what they returned
    sync                 \* sync_kat_from_rss: the diary, the feed, where the scan is

resolveVars == <<shortlink_to_film, call>>

scrapeVars == <<film_to_tmdb, cached_at_start, page, index, task, results, doneq,
                completed, progress, fetched>>

enrichVars == <<tmdb_movie_data, films, run, first_run, cache_at_start, enriched>>

flushVars == <<mem_doc, cache_path, tmp_path, flush>>

runVars == <<cache_file, lb_file, cache_obj, lb_obj, loop>>

normVars == <<norm>>

memberVars == <<member>>

listVars == <<list_cache, listcall>>

syncVars == <<sync>>

mainVars == <<main>>

stageVars == <<urlset, uri_map, stage, pool, net>>

vars == <<pipeline, resolveVars, scrapeVars, enrichVars, flushVars, runVars, normVars,
          memberVars, listVars, syncVars, mainVars, stageVars>>

\* What each stage leaves alone.
outsideResolve == <<scrapeVars, enrichVars, flushVars, runVars, normVars,
                    memberVars, listVars, syncVars, mainVars, stageVars>>
outsideScrape == <<resolveVars, enrichVars, flushVars, runVars, normVars,
                   memberVars, listVars, syncVars, mainVars, stageVars>>
outsideEnrich == <<resolveVars, scrapeVars, flushVars, runVars, normVars,
                   memberVars, listVars, syncVars, mainVars, stageVars>>
outsideFlush == <<resolveVars, scrapeVars, enrichVars, runVars, normVars,
                  memberVars, listVars, syncVars, mainVars, stageVars>>
outsideRun == <<resolveVars, scrapeVars, enrichVars, flushVars, normVars,
                memberVars, listVars, syncVars, mainVars, stageVars>>
outsideNorm == <<scrapeVars, enrichVars, flushVars, runVars, stageVars, memberVars, listVars, syncVars, mainVars>>
outsideMember == <<resolveVars, scrapeVars, enrichVars, flushVars, runVars, normVars,
                   stageVars, mainVars, listVars, syncVars>>
outsideMain == <<resolveVars, scrapeVars, enrichVars, flushVars, runVars, normVars,
                 stageVars, memberVars, listVars, syncVars>>

\* The three scripts.
SCRAPE == "scrape_tmdb_ids"
CRITICS == "enrich_critics_list"
CURATED == "enrich_curated_lists"

----------------------------------------------------------------------------
\* Maps (Python dicts) as functions.

EmptyMap == [k \in {} |-> k]

Put(m, k, v) == [x \in (DOMAIN m) \cup {k} |-> IF x = k THEN v ELSE m[x]]

----------------------------------------------------------------------------
\* URLs as token sequences.

LB == "https://letterboxd.com"
BOXD == "https://boxd.it"
SLASH == "/"
HASH == "#"
QMARK == "?"
SP == " "
EmptyStr == <<>>

\* str.strip()
RECURSIVE Strip(_)
Strip(u) ==
    IF Len(u) > 0 /\ u[1] = SP THEN Strip(Tail(u))
    ELSE IF Len(u) > 0 /\ u[Len(u)] = SP THEN Strip(SubSeq(u, 1, Len(u) - 1))
    ELSE u

\* str.lower() on a token (the tokens of the model that have upper case).
Lower(t) ==
    CASE t = "Film" -> "film"
      [] t = "Parasite-2019" -> "parasite-2019"
      [] t = "Heat" -> "heat"
      [] OTHER -> t

\* The short links and the destinations a redirect can report.
Links == { <<BOXD, SLASH, "abc">>, <<BOXD, SLASH, "xyz">> }

Dests == { <<LB, SLASH, "film", SLASH, "parasite-2019", SLASH>>,
           <<LB, SLASH, "kat", SLASH, "film", SLASH, "parasite-2019", SLASH>>,
           <<LB, SLASH, "film", SLASH, "heat">> }

\* url.rstrip("/")
RECURSIVE RStripSlash(_)
RStripSlash(u) ==
    IF Len(u) > 0 /\ u[Len(u)] = SLASH THEN RStripSlash(SubSeq(u, 1, Len(u) - 1))
    ELSE u

\* The longest run of tokens other than "/" that starts at position i.
RECURSIVE RunEnd(_, _)
RunEnd(u, i) ==
    IF i <= Len(u) /\ u[i] # SLASH THEN RunEnd(u, i + 1) ELSE i - 1

\* LETTERBOXD_FILM_RE.match(u) of enrich_curated_lists (re.I, anchored at
\* the start): group(1), or <<>> when there is no match.  p is the position
\* where "film/" must start.
FilmSlugAt(u, p) ==
    IF p + 2 <= Len(u) /\ Lower(u[p]) = "film" /\ u[p + 1] = SLASH
       /\ RunEnd(u, p + 2) >= p + 2
    THEN SubSeq(u, p + 2, RunEnd(u, p + 2))
    ELSE <<>>

CuratedFilmMatch(u) ==
    IF Len(u) >= 2 /\ u[1] = LB /\ u[2] = SLASH
    THEN LET e == RunEnd(u, 3)
             withUser == IF e >= 3 /\ e + 1 <= Len(u) /\ u[e + 1] = SLASH
                         THEN FilmSlugAt(u, e + 2) ELSE <<>>
         IN  IF withUser # <<>> THEN withUser ELSE FilmSlugAt(u, 3)
    ELSE <<>>

\* normalize_url of enrich_curated_lists and of build_curated_lists.
normalize_url(url) ==
    IF url = EmptyStr THEN EmptyStr
    ELSE LET cleaned == RStripSlash(Strip(url))
             slug == CuratedFilmMatch(cleaned)
         IN  IF slug # <<>> THEN <<LB, SLASH, "film", SLASH>> \o slug \o <<SLASH>>
             ELSE cleaned

\* "boxd.it/" in url
HasBoxdSlash(url) == \E i \in 1..(Len(url) - 1) : url[i] = BOXD /\ url[i + 1] = SLASH

----------------------------------------------------------------------------
\* What one HTTP request can come to: an exception (connection error,
\* timeout), or a response with a status and a final URL (resp.url).

Raise == [kind |-> "raise", status |-> 0, url |-> EmptyStr]

Responses == [kind : {"resp"}, status : {200, 404}, url : Dests \cup {EmptyStr}]

NetOutcomes == {Raise} \cup Responses

NoValue == <<"<no value>">>

Returned(v, m, reqs) == [ret |-> v, raised |-> FALSE, map |-> m, requests |-> reqs]
Raised(m, reqs) == [ret |-> NoValue, raised |-> TRUE, map |-> m, requests |-> reqs]

\* isinstance(cached, str) and cached
CachedDest(m, url) == url \in DOMAIN m /\ m[url] # EmptyStr

\* expand_boxd_shortlink whose write rebinds the mapping to a dict with the
\* new entry alone, instead of storing the entry into the shared dict.
expand_boxd_shortlink_rebinding(url, m, h, g) ==
    IF CachedDest(m, url) THEN Returned(m[url], m, <<>>)
    ELSE IF h.kind = "resp" /\ h.url # EmptyStr
         THEN Returned(h.url, Put(EmptyMap, url, h.url), <<"HEAD">>)
    ELSE IF g.kind = "raise" THEN Raised(m, <<"HEAD", "GET">>)
    ELSE Returned(g.url, IF g.url # EmptyStr THEN Put(EmptyMap, url, g.url) ELSE m,
                  <<"HEAD", "GET">>)

\* expand_boxd_shortlink of scrape_tmdb_ids, called with the cache (main
\* always passes one).  h and g are the outcomes of the HEAD and the GET.
expand_boxd_shortlink(url, m, h, g) ==
    IF CachedDest(m, url) THEN Returned(m[url], m, <<>>)
    ELSE IF h.kind = "resp" /\ h.url # EmptyStr
         THEN Returned(h.url, Put(m, url, h.url), <<"HEAD">>)
    ELSE IF g.kind = "raise" THEN Raised(m, <<"HEAD", "GET">>)
    ELSE Returned(g.url, IF g.url # EmptyStr THEN Put(m, url, g.url) ELSE m,
                  <<"HEAD", "GET">>)

\* expand_shortlink that consults the cache only once the HEAD probe failed.
expand_shortlink_probe_first(url, m, h, g) ==
    IF h.kind = "resp" /\ h.url # EmptyStr
    THEN Returned(h.url, Put(m, url, h.url), <<"HEAD">>)
    ELSE IF CachedDest(m, url) THEN Returned(m[url], m, <<"HEAD">>)
    ELSE IF g.kind = "resp" /\ g.url # EmptyStr
         THEN Returned(g.url, Put(m, url, g.url), <<"HEAD", "GET">>)
    ELSE Returned(url, m, <<"HEAD", "GET">>)

\* expand_shortlink of enrich_critics_list.
expand_shortlink_critics(url, m, h, g) ==
    IF CachedDest(m, url) THEN Returned(m[url], m, <<>>)
    ELSE IF h.kind = "resp" /\ h.url # EmptyStr
         THEN Returned(h.url, Put(m, url, h.url), <<"HEAD">>)
    ELSE IF g.kind = "resp" /\ g.url # EmptyStr
         THEN Returned(g.url, Put(m, url, g.url), <<"HEAD", "GET">>)
    ELSE Returned(url, m, <<"HEAD", "GET">>)

\* expand_shortlink of enrich_curated_lists.
expand_shortlink_curated(url, m, h, g) ==
    IF ~HasBoxdSlash(url) THEN Returned(url, m, <<>>)
    ELSE IF url \in DOMAIN m THEN Returned(m[url], m, <<>>)
    ELSE IF h.kind = "raise" THEN Returned(url, m, <<"HEAD">>)
    ELSE IF h.status >= 400
         THEN IF g.kind = "raise" THEN Returned(url, m, <<"HEAD", "GET">>)
              ELSE LET resolved == normalize_url(IF g.url # EmptyStr THEN g.url ELSE url)
                   IN  Returned(resolved, Put(m, url, resolved), <<"HEAD", "GET">>)
    ELSE LET resolved == normalize_url(IF h.url # EmptyStr THEN h.url ELSE url)
         IN  Returned(resolved, Put(m, url, resolved), <<"HEAD">>)

----------------------------------------------------------------------------
\* The resolver under every cache content it can be called with.

\* The outcome recorded for a request that was not issued.
NotSent == [kind |-> "not sent", status |-> 0, url |-> EmptyStr]

NoCall == [fn |-> "none", url |-> EmptyStr, ret |-> NoValue, raised |-> FALSE,
           requests |-> <<>>, before |-> EmptyMap, head |-> NotSent, get |-> NotSent]

Called(fn, url, h, g, r) ==
    /\ shortlink_to_film' = r.map
    /\ call' = [fn |-> fn, url |-> url, ret |-> r.ret, raised |-> r.raised,
                requests |-> r.requests, before |-> shortlink_to_film,
                head |-> IF Len(r.requests) >= 1 THEN h ELSE NotSent,
                get |-> IF Len(r.requests) >= 2 THEN g ELSE NotSent]

ExpandBoxdShortlink ==
    /\ pipeline = SCRAPE
    /\ \E url \in Links, h \in NetOutcomes, g \in NetOutcomes :
          Called(SCRAPE, url, h, g, expand_boxd_shortlink(url, shortlink_to_film, h, g))
    /\ UNCHANGED <<pipeline, outsideResolve>>

ExpandShortlinkCritics ==
    /\ pipeline = CRITICS
    /\ \E url \in Links, h \in NetOutcomes, g \in NetOutcomes :
          Called(CRITICS, url, h, g, expand_shortlink_critics(url, shortlink_to_film, h, g))
    /\ UNCHANGED <<pipeline, outsideResolve>>

ExpandShortlinkCurated ==
    /\ pipeline = CURATED
    /\ \E url \in Links \cup Dests, h \in NetOutcomes, g \in NetOutcomes :
          Called(CURATED, url, h, g, expand_shortlink_curated(url, shortlink_to_film, h, g))
    /\ UNCHANGED <<pipeline, outsideResolve>>

ParkResolve == shortlink_to_film = EmptyMap /\ call = NoCall

ParkScrape ==
    /\ film_to_tmdb = EmptyMap /\ cached_at_start = EmptyMap /\ page = EmptyMap
    /\ index = EmptyMap /\ task = EmptyMap /\ results = EmptyMap
    /\ doneq = <<>> /\ completed = 0 /\ progress = <<>> /\ fetched = {}

ParkEnrich ==
    /\ tmdb_movie_data = EmptyMap /\ films = <<>> /\ run = 0
    /\ first_run = <<>> /\ cache_at_start = EmptyMap /\ enriched = <<>>

ParkFlush ==
    /\ mem_doc = 0 /\ cache_path = <<>> /\ tmp_path = <<>>
    /\ flush = [pc |-> "idle", text |-> 0]

ParkRun ==
    /\ cache_file = <<>> /\ lb_file = <<>> /\ cache_obj = <<>> /\ lb_obj = <<>>
    /\ loop = [pc |-> "idle", idx |-> 0, total |-> 0, key |-> "", id |-> 0,
               requested |-> FALSE, error |-> ""]

NoNorm == [fn |-> "none", url |-> EmptyStr, slug |-> "", noise |-> EmptyStr,
           dest |-> EmptyStr, out |-> EmptyStr, again |-> EmptyStr, raised |-> FALSE]

ParkNorm == norm = NoNorm

NoPool == [stage |-> "none", pending |-> 0, running |-> 0, done |-> 0, collected |-> 0]

NoStage == [pc |-> "idle", emitted |-> <<>>, total |-> 0, order |-> <<>>,
            reordered |-> FALSE]

ParkStage ==
    /\ urlset = {} /\ uri_map = EmptyMap /\ stage = NoStage /\ pool = NoPool
    /\ net = EmptyMap

NoMember == [fn |-> "none", url |-> EmptyStr, ref_urls |-> {}, ref_slugs |-> {},
             flag |-> FALSE]

ParkMember == member = NoMember

NoListCall == [pc |-> "idle", header |-> FALSE, rows |-> <<>>, mtime |-> <<>>,
               touched |-> FALSE, net1 |-> <<>>, net2 |-> <<>>,
               first |-> <<>>, second |-> <<>>]

ParkList == list_cache = EmptyMap /\ listcall = NoListCall

NoSync == [pc |-> "idle", diary_rows |-> <<>>, rss_rows |-> <<>>, stop_after |-> 0,
           diary_set |-> {}, diary_sorted |-> <<>>, recent_seq |-> <<>>,
           recent_idx |-> 0, consecutive |-> 0, new_rows |-> <<>>, new_keys |-> {},
           seen |-> <<>>, diary_out |-> <<>>, watch_out |-> <<>>, written |-> FALSE]

ParkSync == sync = NoSync

NoMain == [pc |-> "idle", key |-> FALSE, enrich_tmdb |-> FALSE, input |-> "none",
           items |-> <<>>, i |-> 0, kept |-> 0, requests |-> 0,
           out_written |-> FALSE, cache_written |-> FALSE, status |-> <<>>]

ParkMain == main = NoMain

InitResolve ==
    /\ pipeline \in {SCRAPE, CRITICS, CURATED}
    /\ shortlink_to_film = EmptyMap
    /\ call = NoCall
    /\ ParkScrape /\ ParkEnrich /\ ParkFlush /\ ParkRun /\ ParkNorm /\ ParkMember /\ ParkList /\ ParkSync /\ ParkMain /\ ParkStage

NextResolve == ExpandBoxdShortlink \/ ExpandShortlinkCritics \/ ExpandShortlinkCurated

SpecResolve == InitResolve /\ [][NextResolve]_vars

\* C1: a short link whose entry in shortlink_to_film is a destination D
\* resolves to D with no HEAD and no GET, and the cache stays as it was.
C1_ShortLinkCacheHit ==
    (call.fn # "none" /\ call.url \in Links /\ CachedDest(call.before, call.url))
        => /\ ~call.raised
           /\ call.ret = call.before[call.url]
           /\ call.requests = <<>>
           /\ shortlink_to_film = call.before

C1_Witness ==
    /\ call.fn = CURATED /\ call.url \in Links
    /\ CachedDest(call.before, call.url)
    /\ call.ret = call.before[call.url]

\* C5: the resolver never raises; it returns the destination a request
\* reported (or the cached one), or else the short link it was given.
C5_NeverRaises ==
    (call.fn \in {SCRAPE, CRITICS} /\ call.url \in Links)
        => /\ ~call.raised
           /\ \/ call.ret = call.url
              \/ CachedDest(call.before, call.url) /\ call.ret = call.before[call.url]
              \/ call.ret # EmptyStr /\ call.ret \in {call.head.url, call.get.url}

\* C35: a resolution that is not answered from the cache sends one HEAD
\* first and then at most one GET; the GET is sent when the HEAD raised or
\* reported no destination, and is not sent when the HEAD succeeded with a
\* destination.
C35_HeadFirstGetOnlyAsFallback ==
    (call.fn # "none" /\ call.url \in Links /\ call.requests # <<>>) =>
        /\ call.requests \in {<<"HEAD">>, <<"HEAD", "GET">>}
        /\ (call.head.kind = "raise" \/ call.head.url = EmptyStr)
              => call.requests = <<"HEAD", "GET">>
        /\ (call.head.kind = "resp" /\ call.head.url # EmptyStr /\ call.head.status < 400)
              => call.requests = <<"HEAD">>

----------------------------------------------------------------------------
\* The External-ID scraper and the concurrent scrape stage.

MAX_WORKERS == 10

NumFilms == 2

AllFilmUrls == << <<LB, SLASH, "film", SLASH, "parasite-2019", SLASH>>,
                  <<LB, SLASH, "film", SLASH, "heat", SLASH>>,
                  <<LB, SLASH, "film", SLASH, "alien", SLASH>>,
                  <<LB, SLASH, "film", SLASH, "ran", SLASH>> >>

FilmUrls == { AllFilmUrls[i] : i \in 1..NumFilms }

TmdbIds == {496243, 949}

\* None, and an int, as the value of an Optional[int].
None == <<>>
Some(n) == <<n>>

\* A value of a film_to_tmdb entry of the cache file that is no int (JSON
\* null, a string); no TMDb ID has this value.
JsonNull == 0

\* isinstance(v, int) for the value of a film_to_tmdb entry.
IsInstanceInt(v) == v # JsonNull

\* film_to_tmdb holds an ID for url.
HoldsId(f2t, url) == url \in DOMAIN f2t /\ IsInstanceInt(f2t[url])

\* str(e) of the exceptions a scrape can end in; "" stands for no error.
NoError == ""
MsgNotFound == "TMDb movie link not found in page HTML"
MsgHttp == "404 Client Error: Not Found for url"
MsgCloudflare == "Cloudflare blocked request"

\* What requesting a film page comes to: HTML that links a TMDb movie, HTML
\* that links none, a failed request, a Cloudflare challenge page.
PageOutcomes ==
    [kind : {"link"}, id : TmdbIds]
        \cup [kind : {"no_link", "http_error", "cloudflare"}, id : {0}]

\* letterboxd_film_to_tmdb_id with fetch_html: [id, error].
letterboxd_film_to_tmdb_id(pg) ==
    CASE pg.kind = "http_error" -> [id |-> None, error |-> MsgHttp]
      [] pg.kind = "cloudflare" -> [id |-> None, error |-> MsgCloudflare]
      [] pg.kind = "no_link" -> [id |-> None, error |-> MsgNotFound]
      [] OTHER -> [id |-> Some(pg.id), error |-> NoError]

\* scrape_one that requests the page without looking at the cache.
scrape_one_uncached(url, f2t, pg) ==
    LET r == letterboxd_film_to_tmdb_id(pg)
    IN  [url |-> url, tmdb_id |-> r.id, error |-> r.error, fetch |-> TRUE]

\* scrape_one of enrich_with_tmdb: (url, tmdb_id, error), and whether the
\* page was requested.
scrape_one(url, f2t, pg) ==
    IF url \in DOMAIN f2t /\ IsInstanceInt(f2t[url])
    THEN [url |-> url, tmdb_id |-> Some(f2t[url]), error |-> NoError, fetch |-> FALSE]
    ELSE LET r == letterboxd_film_to_tmdb_id(pg)
         IN  [url |-> url, tmdb_id |-> r.id, error |-> r.error, fetch |-> TRUE]

\* scrape_tmdb_id of enrich_critics_list: the ID or None, the cache after
\* the call, whether the page was requested, and the exception text it
\* printed on stderr.  (It has no check for a challenge page: one that is
\* served with status 200 is a page without a link.)
scrape_tmdb_id(film_url, f2t, pg) ==
    IF film_url \in DOMAIN f2t /\ IsInstanceInt(f2t[film_url])
    THEN [tmdb_id |-> Some(f2t[film_url]), map |-> f2t, fetch |-> FALSE, log |-> NoError]
    ELSE IF pg.kind = "link"
         THEN [tmdb_id |-> Some(pg.id), map |-> Put(f2t, film_url, pg.id), fetch |-> TRUE,
               log |-> NoError]
         ELSE [tmdb_id |-> None, map |-> f2t, fetch |-> TRUE,
               log |-> IF pg.kind = "http_error" THEN MsgHttp ELSE NoError]

\* build_index: one entry per URL.
build_index(urls) ==
    [u \in urls |-> [letterboxd_url |-> u, tmdb_movie_id |-> None,
                     is_in_criterion_collection |-> FALSE]]

\* The loop body with the error branch left out.
CollectIndexNoMarker(idx, r) ==
    IF r.tmdb_id # None
    THEN [idx EXCEPT ![r.url] = Put(idx[r.url], "tmdb_movie_id", r.tmdb_id)]
    ELSE idx

\* The body of the as_completed loop of pass 1 for one future's result.
CollectIndex(idx, r) ==
    IF r.tmdb_id # None
    THEN [idx EXCEPT ![r.url] = Put(idx[r.url], "tmdb_movie_id", r.tmdb_id)]
    ELSE IF r.error # NoError
         THEN [idx EXCEPT ![r.url] = Put(idx[r.url], "tmdb_error", r.error)]
         ELSE idx

CollectCache(f2t, r) ==
    IF r.tmdb_id # None /\ r.url \notin DOMAIN f2t THEN Put(f2t, r.url, r.tmdb_id[1])
    ELSE f2t

Running == {u \in DOMAIN task : task[u] = "running"}

\* A pool worker takes a submitted scrape.
StartScrape(u) ==
    /\ pipeline = SCRAPE
    /\ task[u] = "pending"
    /\ Cardinality(Running) < MAX_WORKERS
    /\ task' = [task EXCEPT ![u] = "running"]
    /\ UNCHANGED <<pipeline, outsideScrape, film_to_tmdb, cached_at_start, page, index,
                   results, doneq, completed, progress, fetched>>

\* The worker runs scrape_one to its end.
FinishScrape(u) ==
    /\ pipeline = SCRAPE
    /\ task[u] = "running"
    /\ LET r == scrape_one(u, film_to_tmdb, page[u])
       IN  /\ results' = Put(results, u, [url |-> r.url, tmdb_id |-> r.tmdb_id,
                                          error |-> r.error])
           /\ fetched' = IF r.fetch THEN fetched \cup {u} ELSE fetched
    /\ task' = [task EXCEPT ![u] = "done"]
    /\ doneq' = Append(doneq, u)
    /\ UNCHANGED <<pipeline, outsideScrape, film_to_tmdb, cached_at_start, page, index,
                   completed, progress>>

\* The main thread takes the next completed future.
CollectScrape ==
    /\ pipeline = SCRAPE
    /\ doneq # <<>>
    /\ LET u == Head(doneq)
           r == results[u]
       IN  /\ index' = CollectIndex(index, r)
           /\ film_to_tmdb' = CollectCache(film_to_tmdb, r)
           /\ task' = [task EXCEPT ![u] = "collected"]
    /\ doneq' = Tail(doneq)
    /\ completed' = completed + 1
    /\ progress' = Append(progress, completed + 1)
    /\ UNCHANGED <<pipeline, outsideScrape, cached_at_start, page, results, fetched>>

\* enrich_critics_list scrapes the rows one at a time.
ScrapeTmdbIdCritics(u) ==
    /\ pipeline = CRITICS
    /\ task[u] = "pending"
    /\ LET r == scrape_tmdb_id(u, film_to_tmdb, page[u])
       IN  /\ results' = Put(results, u, [url |-> u, tmdb_id |-> r.tmdb_id,
                                          error |-> NoError, stderr |-> r.log])
           /\ film_to_tmdb' = r.map
           /\ fetched' = IF r.fetch THEN fetched \cup {u} ELSE fetched
    /\ task' = [task EXCEPT ![u] = "collected"]
    /\ completed' = completed + 1
    /\ UNCHANGED <<pipeline, outsideScrape, cached_at_start, page, index, doneq, progress>>

InitScrape ==
    /\ pipeline \in {SCRAPE, CRITICS}
    /\ ParkResolve /\ ParkEnrich /\ ParkFlush /\ ParkRun /\ ParkNorm /\ ParkMember /\ ParkList /\ ParkSync /\ ParkMain /\ ParkStage
    /\ \E cached \in SUBSET FilmUrls : film_to_tmdb \in [cached -> TmdbIds \cup {JsonNull}]
    /\ cached_at_start = film_to_tmdb
    /\ page \in [FilmUrls -> PageOutcomes]
    /\ index = build_index(FilmUrls)
    /\ task = [u \in FilmUrls |-> "pending"]
    /\ results = EmptyMap
    /\ doneq = <<>>
    /\ completed = 0
    /\ progress = <<>>
    /\ fetched = {}

NextScrape ==
    \/ \E u \in FilmUrls : StartScrape(u)
    \/ \E u \in FilmUrls : FinishScrape(u)
    \/ CollectScrape
    \/ \E u \in FilmUrls : ScrapeTmdbIdCritics(u)

SpecScrape == InitScrape /\ [][NextScrape]_vars

\* C2: a film URL that film_to_tmdb already holds an ID for is answered
\* with the cached ID and its page is never requested.
C2_ExternalIdCacheHit ==
    \A u \in DOMAIN results :
        HoldsId(cached_at_start, u)
            => results[u].tmdb_id = Some(cached_at_start[u]) /\ u \notin fetched

C2_Witness ==
    \E u \in DOMAIN results :
        /\ HoldsId(cached_at_start, u)
        /\ page[u].kind = "link" /\ page[u].id # cached_at_start[u]
        /\ \E v \in fetched : v # u

\* The ID a scrape of u is due: the cached one, or the one its page links.
Due(u) ==
    IF HoldsId(cached_at_start, u) THEN Some(cached_at_start[u])
    ELSE IF page[u].kind = "link" THEN Some(page[u].id) ELSE None

\* C4: a failed scrape stays in the index with a tmdb_error marker, every
\* other scrape still ends with its tmdb_movie_id in the index, no entry is
\* ever missing, and the stage only stops once every scrape is collected.
C4_PartialFailureIsolation ==
    pipeline = SCRAPE =>
        /\ DOMAIN index = FilmUrls
        /\ \A u \in FilmUrls : task[u] = "collected" =>
              /\ index[u].tmdb_movie_id = Due(u)
              /\ Due(u) = None => "tmdb_error" \in DOMAIN index[u]
              /\ Due(u) # None => "tmdb_error" \notin DOMAIN index[u]
        /\ (\E u \in FilmUrls : task[u] # "collected") => ENABLED NextScrape

C4_Witness ==
    /\ pipeline = SCRAPE
    /\ \A u \in FilmUrls : task[u] = "collected"
    /\ \E u, v \in FilmUrls :
          /\ Due(u) = None /\ "tmdb_error" \in DOMAIN index[u]
          /\ Due(v) # None /\ index[v].tmdb_movie_id = Due(v)
          /\ doneq = <<>> /\ completed = NumFilms

\* C31: once a scrape that requested the page of u and found ID n has been
\* collected, film_to_tmdb maps u to n, whatever it held for u before.
C31_ScrapedIdIsCached ==
    \A u \in FilmUrls :
        (task[u] = "collected" /\ u \in fetched /\ results[u].tmdb_id # None)
            => u \in DOMAIN film_to_tmdb /\ Some(film_to_tmdb[u]) = results[u].tmdb_id

----------------------------------------------------------------------------
\* The Metadata Enricher: details and credits of one External Movie ID.

NumItems == 2

\* str(tmdb_id), the key of tmdb_movie_data.
Str(n) == <<"str", n>>

\* {**a, **b}
Merge(a, b) ==
    [k \in (DOMAIN a) \cup (DOMAIN b) |-> IF k \in DOMAIN b THEN b[k] ELSE a[k]]

Single(k, v) == Put(EmptyMap, k, v)

\* Bodies of the details endpoint (spoken_languages as its language
\* codes) and of the credits endpoint (the crew list).
Country(code, name) == [iso_3166_1 |-> code, name |-> name]

DetailsResponses ==
    { [title |-> "Parasite", original_language |-> "ko",
       production_countries |-> <<Country("KR", "South Korea"),
                                  Country("US", "United States of America")>>,
       spoken_languages |-> <<"ko", "en">>],
      [title |-> "Heat", original_language |-> "en",
       production_countries |-> <<Country("", "Unknown"), Country("GB", "United Kingdom")>>,
       spoken_languages |-> <<"es">>] }

CreditsResponses ==
    { << [name |-> "Bong", job |-> "Director", gender |-> 2],
         [name |-> "Han", job |-> "Screenplay", gender |-> 2],
         [name |-> "Kwak", job |-> "Producer", gender |-> 1] >>,
      << [name |-> "Gerwig", job |-> "Director", gender |-> 1],
         [name |-> "Gerwig", job |-> "Writer", gender |-> 1] >>,
      << [name |-> "Mann", job |-> "Director", gender |-> 2],
         [name |-> "Coel", job |-> "director", gender |-> 1],
         [name |-> "Coel", job |-> "Story", gender |-> 1] >> }

\* A request that raised is None; one that answered is Some(body).
DetailsOutcomes == {None} \cup { Some(d) : d \in DetailsResponses }
CreditsOutcomes == {None} \cup { Some(c) : c \in CreditsResponses }

MsgApi == "401 Client Error: Unauthorized for url"

Map(f(_), seq) == [i \in 1..Len(seq) |-> f(seq[i])]
InSeq(x, seq) == \E i \in 1..Len(seq) : seq[i] = x
AnyWoman(people) == \E i \in 1..Len(people) : people[i].gender = 1

\* A test of the job that ignores case.
IsDirectorAnyCase(person) == person.job \in {"Director", "director"}

IsDirector(person) == person.job = "Director"
IsWriter(person) == person.job \in {"Writer", "Screenplay", "Story", "Characters"}

NameGender(person) == [name |-> person.name, gender |-> person.gender]
NameJobGender(person) ==
    [name |-> person.name, job |-> person.job, gender |-> person.gender]

\* The fields every script derives from the details body.  (title stands
\* for the fields copied as they are: runtime, genres, popularity, ...)
IsoCode(country) == country.iso_3166_1
HasIsoCode(country) == country.iso_3166_1 # ""

\* [c.get("iso_3166_1") for c in production_countries if c.get("iso_3166_1")]
CountryCodes(d) == Map(IsoCode, SelectSeq(d.production_countries, HasIsoCode))

IsAmerican(d) == InSeq("US", CountryCodes(d))

\* A flag taken from the languages spoken in the film.
IsEnglishSpoken(d) == InSeq("en", d.spoken_languages)

IsEnglish(d) == d.original_language = "en"

DetailsFields(d) ==
    [title |-> d.title,
     original_language |-> d.original_language,
     production_countries |-> [codes |-> CountryCodes(d)],
     is_american |-> IsAmerican(d),
     is_english |-> IsEnglish(d)]

\* credits_data of enrich_with_tmdb.
CreditsDataScrape(c) ==
    IF c = None THEN [credits_error |-> MsgApi]
    ELSE LET directors == Map(NameGender, SelectSeq(c[1], IsDirector))
             writers == Map(NameJobGender, SelectSeq(c[1], IsWriter))
         IN  [directors |-> directors, writers |-> writers,
              directed_by_woman |-> AnyWoman(directors),
              written_by_woman |-> AnyWoman(writers)]

\* What one pass through a loop body did: the fields it set on the film,
\* the cache after it, the requests it issued, whether it slept.
Step(fields, tc, requests, slept) ==
    [fields |-> fields, cache |-> tc, requests |-> requests, slept |-> slept]

\* The pass-2 loop body without its cache lookup: every film is fetched.
EnrichItemScrapeNoCache(id, tc, d, c) ==
    IF d = None
    THEN Step(Single("tmdb_api_error", MsgApi), tc, <<"details">>, FALSE)
    ELSE LET rec == Merge(DetailsFields(d[1]), CreditsDataScrape(c))
         IN  Step(Single("tmdb_data", rec), Put(tc, Str(id), rec),
                  <<"details", "credits">>, TRUE)

\* The body of the pass-2 loop of enrich_with_tmdb for one film.
EnrichItemScrape(id, tc, d, c) ==
    IF Str(id) \in DOMAIN tc
    THEN Step(Single("tmdb_data", tc[Str(id)]), tc, <<>>, FALSE)
    ELSE IF d = None
         THEN Step(Single("tmdb_api_error", MsgApi), tc, <<"details">>, FALSE)
         ELSE LET rec == Merge(DetailsFields(d[1]), CreditsDataScrape(c))
              IN  Step(Single("tmdb_data", rec), Put(tc, Str(id), rec),
                       <<"details", "credits">>, TRUE)

\* cached and "directed_by_woman" in cached
UsableCached(tc, id) ==
    /\ Str(id) \in DOMAIN tc
    /\ tc[Str(id)] # EmptyMap
    /\ "directed_by_woman" \in DOMAIN tc[Str(id)]

\* The loop of enrich with the delay taken at the end of every pass, whether
\* or not the network was used.
EnrichItemCriticsAlwaysSleeps(id, tc, d, c) ==
    IF UsableCached(tc, id)
    THEN Step(Single("tmdb_data", tc[Str(id)]), tc, <<>>, TRUE)
    ELSE IF d = None
         THEN Step(EmptyMap, tc, <<"details", "credits">>, TRUE)
         ELSE LET crew == IF c = None THEN <<>> ELSE c[1]
                  directors == Map(NameGender, SelectSeq(crew, IsDirector))
                  writers == Map(NameGender, SelectSeq(crew, IsWriter))
                  rec == Merge(DetailsFields(d[1]),
                               [directors |-> directors, writers |-> writers,
                                directed_by_woman |-> AnyWoman(directors),
                                written_by_woman |-> AnyWoman(writers)])
              IN  Step(Single("tmdb_data", rec), Put(tc, Str(id), rec),
                       <<"details", "credits">>, TRUE)

\* The details-and-credits part of the loop of enrich (enrich_critics_list)
\* for one film; a film that is skipped gets no fields.
EnrichItemCritics(id, tc, d, c) ==
    IF UsableCached(tc, id)
    THEN Step(Single("tmdb_data", tc[Str(id)]), tc, <<>>, FALSE)
    ELSE IF d = None
         THEN Step(EmptyMap, tc, <<"details", "credits">>, FALSE)
         ELSE LET crew == IF c = None THEN <<>> ELSE c[1]
                  directors == Map(NameGender, SelectSeq(crew, IsDirector))
                  writers == Map(NameGender, SelectSeq(crew, IsWriter))
                  rec == Merge(DetailsFields(d[1]),
                               [directors |-> directors, writers |-> writers,
                                directed_by_woman |-> AnyWoman(directors),
                                written_by_woman |-> AnyWoman(writers)])
              IN  Step(Single("tmdb_data", rec), Put(tc, Str(id), rec),
                       <<"details", "credits">>, TRUE)

\* build_tmdb_data of enrich_curated_lists: the record, or None when the
\* details request raised.
build_tmdb_data(d, c) ==
    IF d = None THEN None
    ELSE IF c = None THEN Some([tmdb_error |-> MsgApi])
    ELSE LET directors == Map(NameGender, SelectSeq(c[1], IsDirector))
             writers == Map(NameJobGender, SelectSeq(c[1], IsWriter))
         IN  Some(Merge(DetailsFields(d[1]),
                        [directors |-> directors, writers |-> writers,
                         directed_by_woman |-> AnyWoman(directors),
                         written_by_woman |-> AnyWoman(writers)]))

\* The details-and-credits part of the loop of main (enrich_curated_lists).
EnrichItemCurated(id, tc, d, c) ==
    IF UsableCached(tc, id)
    THEN Step(Single("tmdb_data", tc[Str(id)]), tc, <<>>, FALSE)
    ELSE LET built == build_tmdb_data(d, c)
         IN  IF built = None
             THEN Step(Single("tmdb_error", MsgApi), tc, <<"details">>, TRUE)
             ELSE Step(Single("tmdb_data", built[1]),
                       IF "tmdb_error" \notin DOMAIN built[1]
                       THEN Put(tc, Str(id), built[1]) ELSE tc,
                       <<"details", "credits">>, TRUE)

\* One film of the loop: position Len(enriched) + 1.
Enriched(st, d, c) ==
    /\ Len(enriched) < Len(films)
    /\ tmdb_movie_data' = st.cache
    /\ enriched' = Append(enriched,
            [fields |-> st.fields, requests |-> st.requests, slept |-> st.slept,
             details |-> IF InSeq("details", st.requests) THEN d ELSE None,
             credits |-> IF InSeq("credits", st.requests) THEN c ELSE None])
    /\ UNCHANGED <<pipeline, outsideEnrich, films, run, first_run, cache_at_start>>

NextFilm == films[Len(enriched) + 1]

EnrichWithTmdb ==
    /\ pipeline = SCRAPE
    /\ Len(enriched) < Len(films)
    /\ \E d \in DetailsOutcomes, c \in CreditsOutcomes :
          Enriched(EnrichItemScrape(NextFilm, tmdb_movie_data, d, c), d, c)

EnrichCritics ==
    /\ pipeline = CRITICS
    /\ Len(enriched) < Len(films)
    /\ \E d \in DetailsOutcomes, c \in CreditsOutcomes :
          Enriched(EnrichItemCritics(NextFilm, tmdb_movie_data, d, c), d, c)

EnrichCurated ==
    /\ pipeline = CURATED
    /\ Len(enriched) < Len(films)
    /\ \E d \in DetailsOutcomes, c \in CreditsOutcomes :
          Enriched(EnrichItemCurated(NextFilm, tmdb_movie_data, d, c), d, c)

\* The run ends, the cache is saved, and the script is run again over the
\* same films with the cache file it left.
RunAgain ==
    /\ run = 1
    /\ Len(enriched) = Len(films)
    /\ run' = 2
    /\ first_run' = enriched
    /\ enriched' = <<>>
    /\ cache_at_start' = tmdb_movie_data
    /\ UNCHANGED <<pipeline, outsideEnrich, tmdb_movie_data, films>>

\* The run of scrape_tmdb_ids ends, the cache is saved, and
\* enrich_critics_list is run over the same films with --cache naming that
\* file (the two scripts keep the same cache format); run 3 is this run.
RunCriticsOnSameCache ==
    /\ run = 1
    /\ pipeline = SCRAPE
    /\ Len(enriched) = Len(films)
    /\ run' = 3
    /\ pipeline' = CRITICS
    /\ first_run' = enriched
    /\ enriched' = <<>>
    /\ cache_at_start' = tmdb_movie_data
    /\ UNCHANGED <<outsideEnrich, tmdb_movie_data, films>>

InitEnrich ==
    /\ pipeline \in {SCRAPE, CRITICS, CURATED}
    /\ ParkResolve /\ ParkScrape /\ ParkFlush /\ ParkRun /\ ParkNorm /\ ParkMember /\ ParkList /\ ParkSync /\ ParkMain /\ ParkStage
    /\ films \in [1..NumItems -> TmdbIds]
    /\ tmdb_movie_data = EmptyMap
    /\ cache_at_start = EmptyMap
    /\ run = 1
    /\ first_run = <<>>
    /\ enriched = <<>>

NextEnrich ==
    EnrichWithTmdb \/ EnrichCritics \/ EnrichCurated \/ RunAgain \/ RunCriticsOnSameCache

SpecEnrich == InitEnrich /\ [][NextEnrich]_vars

\* The first run's record of film i is the one the cache holds for its ID
\* when the second run starts.
StoredByFirstRun(i) ==
    /\ "tmdb_data" \in DOMAIN first_run[i].fields
    /\ Str(films[i]) \in DOMAIN cache_at_start
    /\ cache_at_start[Str(films[i])] = first_run[i].fields.tmdb_data

\* C3 as stated: the second run issues no details or credits request and
\* attaches to each film the record of the first run.
C3_SecondRunIdentical ==
    run = 2 =>
        \A i \in 1..Len(enriched) :
            enriched[i].requests = <<>> /\ enriched[i].fields = first_run[i].fields

\* C3 amended: the same, for the films whose first-run record was stored in
\* tmdb_movie_data.
C3_SecondRunIdenticalForStored ==
    run = 2 =>
        \A i \in 1..Len(enriched) :
            StoredByFirstRun(i) =>
                enriched[i].requests = <<>> /\ enriched[i].fields = first_run[i].fields

C3_Witness ==
    /\ run = 2 /\ Len(enriched) = NumItems
    /\ \E i, j \in 1..NumItems :
          /\ StoredByFirstRun(i) /\ first_run[i].requests # <<>>
          /\ enriched[i].requests = <<>>
          /\ ~StoredByFirstRun(j) /\ enriched[j].requests # <<>>

\* C6: no record carrying an error marker is in tmdb_movie_data.
C6_NoErrorRecordCached ==
    \A k \in DOMAIN tmdb_movie_data :
        (DOMAIN tmdb_movie_data[k])
            \cap {"tmdb_api_error", "credits_error", "tmdb_error"} = {}

----------------------------------------------------------------------------
\* Flushing the cache document to disk.  A text is named by a number (0 is
\* the text of the empty cache); a file holds the first `written` of the
\* TextChunks chunks of a text, and is None when it does not exist.

TextChunks == 2

MaxText == 2

File(text, written) == Some([text |-> text, written |-> written])

Complete(file) == file # None /\ file[1].written = TextChunks

\* The cache changes in memory (any cacheable call of the run).
MutateCache ==
    /\ flush.pc = "idle"
    /\ mem_doc < MaxText
    /\ mem_doc' = mem_doc + 1
    /\ UNCHANGED <<pipeline, outsideFlush, cache_path, tmp_path, flush>>

\* save_cache of scrape_tmdb_ids and enrich_critics_list: json.dumps, then
\* tmp.write_text opens (and truncates) the temporary file ...
SaveCacheOpenTmp ==
    /\ pipeline \in {SCRAPE, CRITICS}
    /\ flush.pc = "idle"
    /\ flush' = [pc |-> "tmp_open", text |-> mem_doc]
    /\ tmp_path' = File(mem_doc, 0)
    /\ UNCHANGED <<pipeline, outsideFlush, mem_doc, cache_path>>

\* ... writes the text into it ...
SaveCacheWriteTmp ==
    /\ flush.pc = "tmp_open"
    /\ tmp_path[1].written < TextChunks
    /\ tmp_path' = File(flush.text, tmp_path[1].written + 1)
    /\ UNCHANGED <<pipeline, outsideFlush, mem_doc, cache_path, flush>>

\* ... closes it ...
SaveCacheCloseTmp ==
    /\ flush.pc = "tmp_open"
    /\ tmp_path[1].written = TextChunks
    /\ flush' = [flush EXCEPT !.pc = "tmp_closed"]
    /\ UNCHANGED <<pipeline, outsideFlush, mem_doc, cache_path, tmp_path>>

\* ... and os.replace renames it onto the cache path.
SaveCacheReplace ==
    /\ flush.pc = "tmp_closed"
    /\ cache_path' = tmp_path
    /\ tmp_path' = None
    /\ flush' = [flush EXCEPT !.pc = "idle"]
    /\ UNCHANGED <<pipeline, outsideFlush, mem_doc>>

\* save_json of enrich_curated_lists: json.dumps, then path.write_text
\* opens (and truncates) the cache file itself ...
SaveJsonOpen ==
    /\ pipeline = CURATED
    /\ flush.pc = "idle"
    /\ flush' = [pc |-> "open", text |-> mem_doc]
    /\ cache_path' = File(mem_doc, 0)
    /\ UNCHANGED <<pipeline, outsideFlush, mem_doc, tmp_path>>

\* ... writes the text into it ...
SaveJsonWrite ==
    /\ flush.pc = "open"
    /\ cache_path[1].written < TextChunks
    /\ cache_path' = File(flush.text, cache_path[1].written + 1)
    /\ UNCHANGED <<pipeline, outsideFlush, mem_doc, tmp_path, flush>>

\* ... and closes it.
SaveJsonClose ==
    /\ flush.pc = "open"
    /\ cache_path[1].written = TextChunks
    /\ flush' = [flush EXCEPT !.pc = "idle"]
    /\ UNCHANGED <<pipeline, outsideFlush, mem_doc, cache_path, tmp_path>>

\* The process dies (at any point, a flush under way included).
Crash ==
    /\ flush.pc # "crashed"
    /\ flush' = [flush EXCEPT !.pc = "crashed"]
    /\ UNCHANGED <<pipeline, outsideFlush, mem_doc, cache_path, tmp_path>>

InitFlush ==
    /\ pipeline \in {SCRAPE, CRITICS, CURATED}
    /\ ParkResolve /\ ParkScrape /\ ParkEnrich /\ ParkRun /\ ParkNorm /\ ParkMember /\ ParkList /\ ParkSync /\ ParkMain /\ ParkStage
    /\ mem_doc = 0
    /\ cache_path \in {None, File(0, TextChunks)}
    /\ tmp_path = None
    /\ flush = [pc |-> "idle", text |-> 0]

NextFlush ==
    \/ MutateCache
    \/ SaveCacheOpenTmp \/ SaveCacheWriteTmp \/ SaveCacheCloseTmp \/ SaveCacheReplace
    \/ SaveJsonOpen \/ SaveJsonWrite \/ SaveJsonClose
    \/ Crash

SpecFlush == InitFlush /\ [][NextFlush]_vars

\* C7: at every point of a flush, a crash included, the file at the cache
\* path holds a complete document (or does not exist yet), never a part of
\* one.
C7_AtomicReplace == cache_path = None \/ Complete(cache_path)

----------------------------------------------------------------------------
\* Loading the cache file.  A JSON document is text that does not parse
\* ("garbage"), a value that is no object ("list"), or an object with an
\* optional version and some of the mappings.

CACHE_VERSION == 1

Doc(kind, version, maps) == [kind |-> kind, version |-> version, maps |-> maps]

ScrapeMappings == {"shortlink_to_film", "film_to_tmdb", "list_cache", "tmdb_movie_data"}
CriticsMappings == {"shortlink_to_film", "film_to_tmdb", "tmdb_movie_data"}
CuratedMappings == {"tmdb_movie_data", "tmdb_search"}

SearchKeys == {"Parasite|2019", "Heat|1995"}

SampleRecord ==
    build_tmdb_data(Some(CHOOSE d \in DetailsResponses : d.title = "Heat"),
                    Some(CHOOSE c \in CreditsResponses : c[1].name = "Bong"))[1]

\* A populated mapping of each name, as a run leaves it.
SampleMap(name) ==
    CASE name = "shortlink_to_film" ->
            Single(<<BOXD, SLASH, "abc">>, <<LB, SLASH, "film", SLASH, "heat", SLASH>>)
      [] name = "film_to_tmdb" -> Single(<<LB, SLASH, "film", SLASH, "heat", SLASH>>, 949)
      [] name = "list_cache" ->
            Single("criterion.csv|1700000000.0|",
                   [resolved_urls |-> << <<LB, SLASH, "film", SLASH, "heat", SLASH>> >>])
      [] name = "tmdb_movie_data" -> Single(Str(949), SampleRecord)
      [] OTHER -> Put(Single("Heat|1995", Some(949)), "Parasite|2019", None)

Versions == {None, Some(CACHE_VERSION), Some(CACHE_VERSION + 1)}

ObjectDocs(names) ==
    { Doc("dict", v, [n \in present |-> SampleMap(n)]) :
        v \in Versions, present \in SUBSET names }

CacheFiles ==
    {None, Some(Doc("garbage", None, EmptyMap)), Some(Doc("list", None, EmptyMap))}
        \cup { Some(doc) : doc \in ObjectDocs(ScrapeMappings \cup CuratedMappings) }

\* data.setdefault(name, {}) for every name of names
SetDefaults(maps, names) ==
    [n \in (DOMAIN maps) \cup names |-> IF n \in DOMAIN maps THEN maps[n] ELSE EmptyMap]

EmptyCache(names) == Doc("dict", Some(CACHE_VERSION), [n \in names |-> EmptyMap])

\* load_cache that keeps the mappings of a file of another version.
load_cache_migrating(file) ==
    IF file = None \/ file[1].kind # "dict" THEN EmptyCache(ScrapeMappings)
    ELSE Doc("dict", Some(CACHE_VERSION), SetDefaults(file[1].maps, ScrapeMappings))

\* load_cache of scrape_tmdb_ids.
load_cache(file) ==
    IF file = None THEN EmptyCache(ScrapeMappings)
    ELSE IF file[1].kind = "garbage" THEN EmptyCache(ScrapeMappings)
    ELSE IF file[1].kind # "dict" \/ file[1].version # Some(CACHE_VERSION)
         THEN EmptyCache(ScrapeMappings)
    ELSE Doc("dict", file[1].version, SetDefaults(file[1].maps, ScrapeMappings))

\* load_cache and _empty_cache of enrich_critics_list.
load_cache_critics(file) ==
    IF file = None THEN EmptyCache(CriticsMappings)
    ELSE IF file[1].kind = "garbage" THEN EmptyCache(CriticsMappings)
    ELSE IF file[1].kind # "dict" \/ file[1].version # Some(CACHE_VERSION)
         THEN EmptyCache(CriticsMappings)
    ELSE Doc("dict", file[1].version, SetDefaults(file[1].maps, CriticsMappings))

\* load_json of enrich_curated_lists.
load_json(file, default) ==
    IF file = None THEN default
    ELSE IF file[1].kind = "garbage" THEN default
    ELSE file[1]

CuratedDefault == Doc("dict", None, [n \in CuratedMappings |-> EmptyMap])
LetterboxdDefault == Doc("dict", None, EmptyMap)

At(pc) == [loop EXCEPT !.pc = pc]

LoadCacheScrape ==
    /\ pipeline = SCRAPE
    /\ loop.pc = "start"
    /\ cache_obj' = load_cache(cache_file)
    /\ loop' = At("loaded")
    /\ UNCHANGED <<pipeline, outsideRun, cache_file, lb_file, lb_obj>>

LoadCacheCritics ==
    /\ pipeline = CRITICS
    /\ loop.pc = "start"
    /\ cache_obj' = load_cache_critics(cache_file)
    /\ loop' = At("loaded")
    /\ UNCHANGED <<pipeline, outsideRun, cache_file, lb_file, lb_obj>>

\* main of enrich_curated_lists loads its two caches.
LoadJsonCurated ==
    /\ pipeline = CURATED
    /\ loop.pc = "start"
    /\ cache_obj' = load_json(cache_file, CuratedDefault)
    /\ lb_obj' = load_json(lb_file, LetterboxdDefault)
    /\ loop' = At("film")
    /\ UNCHANGED <<pipeline, outsideRun, cache_file, lb_file>>

----------------------------------------------------------------------------
\* The film loop of main of enrich_curated_lists.

FlushEvery == 50

MaxCuratedFilms == 51

CuratedUrls == { <<BOXD, SLASH, "abc">>, <<LB, SLASH, "film", SLASH, "heat", SLASH>> }

\* What tmdb_search comes to: it raises, or returns the ID of the result it
\* picks, None when there is no result.
SearchOutcomes ==
    { [ok |-> FALSE, id |-> None], [ok |-> TRUE, id |-> None],
      [ok |-> TRUE, id |-> Some(949)] }

MapOf(obj, name) == IF name \in DOMAIN obj.maps THEN obj.maps[name] ELSE EmptyMap

WithMap(obj, name, m) == [obj EXCEPT !.maps = Put(obj.maps, name, m)]

\* The next film: its URL is normalized (a short link is expanded through
\* letterboxd_cache first); a film that already carries tmdb_data and
\* tmdb_movie_id is passed over.
NextCuratedFilm(key, url, has_data, h, g) ==
    LET begun == [loop EXCEPT !.idx = loop.idx + 1, !.key = key,
                              !.requested = FALSE, !.error = ""]
        after == IF has_data THEN [begun EXCEPT !.pc = "film"]
                 ELSE [begun EXCEPT !.pc = "search"]
    IN  IF ~HasBoxdSlash(url)
        THEN loop' = after /\ lb_obj' = lb_obj
        ELSE IF lb_obj.kind # "dict"
             THEN loop' = [begun EXCEPT !.pc = "fatal_cache"] /\ lb_obj' = lb_obj
             ELSE LET r == expand_shortlink_curated(
                               url, MapOf(lb_obj, "shortlink_to_film"), h, g)
                  IN  /\ loop' = after
                      /\ lb_obj' = IF r.requests = <<>> THEN lb_obj
                                    ELSE WithMap(lb_obj, "shortlink_to_film", r.map)

CuratedFilm ==
    /\ pipeline = CURATED
    /\ loop.pc = "film"
    /\ loop.idx < loop.total
    /\ \E key \in SearchKeys, url \in CuratedUrls, has_data \in BOOLEAN :
          IF HasBoxdSlash(url) /\ lb_obj.kind = "dict"
             /\ url \notin DOMAIN MapOf(lb_obj, "shortlink_to_film")
          THEN \E h \in NetOutcomes :
                  \E g \in IF h.kind = "resp" /\ h.status >= 400
                            THEN NetOutcomes ELSE {Raise} :
                      NextCuratedFilm(key, url, has_data, h, g)
          ELSE NextCuratedFilm(key, url, has_data, Raise, Raise)
    /\ UNCHANGED <<pipeline, outsideRun, cache_file, lb_file, cache_obj>>

MsgNoMatch == "No TMDb match"

\* The cache-hit test of the search that takes a stored null for a miss.
SearchCachedWithId(obj, key) ==
    /\ key \in DOMAIN MapOf(obj, "tmdb_search")
    /\ MapOf(obj, "tmdb_search")[key] # None

\* cache_key in cache.get("tmdb_search", {})
SearchCached(obj, key) == key \in DOMAIN MapOf(obj, "tmdb_search")

\* The film's ID: from cache["tmdb_search"], or from tmdb_search, whose
\* answer is stored under the film's name|year key; requested tells whether
\* tmdb_search was called.  A film without ID gets tmdb_error.
SearchedAs(id, obj, requested) ==
    /\ cache_obj' = obj
    /\ loop' = IF id = None
                THEN [loop EXCEPT !.pc = "film", !.requested = requested,
                                  !.error = MsgNoMatch]
                ELSE [loop EXCEPT !.pc = "enrich", !.id = id[1],
                                  !.requested = requested]

CuratedSearch ==
    /\ pipeline = CURATED
    /\ loop.pc = "search"
    /\ IF cache_obj.kind # "dict"
       THEN loop' = At("fatal_cache") /\ cache_obj' = cache_obj
       ELSE IF SearchCached(cache_obj, loop.key)
            THEN SearchedAs(cache_obj.maps["tmdb_search"][loop.key], cache_obj, FALSE)
            ELSE \E s \in SearchOutcomes :
                    IF ~s.ok
                    THEN /\ loop' = [loop EXCEPT !.pc = "fatal_search", !.requested = TRUE]
                         /\ cache_obj' = cache_obj
                    ELSE IF "tmdb_search" \notin DOMAIN cache_obj.maps
                         THEN /\ loop' = [loop EXCEPT !.pc = "fatal_cache",
                                                      !.requested = TRUE]
                              /\ cache_obj' = cache_obj
                         ELSE SearchedAs(s.id,
                                  WithMap(cache_obj, "tmdb_search",
                                          Put(cache_obj.maps["tmdb_search"], loop.key, s.id)),
                                  TRUE)
    /\ UNCHANGED <<pipeline, outsideRun, cache_file, lb_file, lb_obj>>

\* The film's Metadata Record, the sleep, and the flush of every
\* FlushEvery-th film.
CuratedEnrich ==
    /\ pipeline = CURATED
    /\ loop.pc = "enrich"
    /\ \E d \in DetailsOutcomes, c \in CreditsOutcomes :
          LET st == EnrichItemCurated(loop.id, MapOf(cache_obj, "tmdb_movie_data"), d, c)
              obj == IF "tmdb_movie_data" \in DOMAIN cache_obj.maps
                     THEN WithMap(cache_obj, "tmdb_movie_data", st.cache)
                     ELSE cache_obj
          IN  /\ cache_obj' = obj
              /\ cache_file' = IF st.requests # <<>> /\ loop.idx % FlushEvery = 0
                                THEN Some(obj) ELSE cache_file
    /\ loop' = At("film")
    /\ UNCHANGED <<pipeline, outsideRun, lb_file, lb_obj>>

\* After the last film: the cache is saved and main returns 0.
CuratedFinish ==
    /\ pipeline = CURATED
    /\ loop.pc = "film"
    /\ loop.idx = loop.total
    /\ cache_file' = Some(cache_obj)
    /\ loop' = At("done")
    /\ UNCHANGED <<pipeline, outsideRun, lb_file, cache_obj, lb_obj>>

StartOfRun(total) ==
    [pc |-> "start", idx |-> 0, total |-> total, key |-> "", id |-> 0,
     requested |-> FALSE, error |-> ""]

\* Every script, started on every cache file.
InitLoad ==
    /\ pipeline \in {SCRAPE, CRITICS, CURATED}
    /\ ParkResolve /\ ParkScrape /\ ParkEnrich /\ ParkFlush /\ ParkNorm /\ ParkMember /\ ParkList /\ ParkSync /\ ParkMain /\ ParkStage
    /\ cache_file \in CacheFiles
    /\ lb_file \in IF pipeline = CURATED
                    THEN {None, Some(Doc("list", None, EmptyMap)),
                          Some(Doc("dict", Some(CACHE_VERSION),
                                   [n \in {"shortlink_to_film"} |-> SampleMap(n)]))}
                    ELSE {None}
    /\ cache_obj = None
    /\ lb_obj = None
    /\ loop = StartOfRun(NumItems)

NextLoad ==
    \/ LoadCacheScrape \/ LoadCacheCritics \/ LoadJsonCurated
    \/ CuratedFilm \/ CuratedSearch \/ CuratedEnrich \/ CuratedFinish

SpecLoad == InitLoad /\ [][NextLoad]_vars

\* enrich_curated_lists over a long list, started without cache files.
InitCurated ==
    /\ pipeline = CURATED
    /\ ParkResolve /\ ParkScrape /\ ParkEnrich /\ ParkFlush /\ ParkNorm /\ ParkMember /\ ParkList /\ ParkSync /\ ParkMain /\ ParkStage
    /\ cache_file = None
    /\ lb_file = None
    /\ cache_obj = None
    /\ lb_obj = None
    /\ loop = StartOfRun(MaxCuratedFilms)

NextCurated ==
    LoadJsonCurated \/ CuratedFilm \/ CuratedSearch \/ CuratedEnrich \/ CuratedFinish

SpecCurated == InitCurated /\ [][NextCurated]_vars

\* The version of the file is not CACHE_VERSION, or the file has none.
VersionMismatch(file) ==
    file # None /\ file[1].kind = "dict" /\ file[1].version # Some(CACHE_VERSION)

\* C9: load_cache on a file of another version (or of none) returns what
\* it returns when there is no file: the empty Cache Store, with none of
\* the file's mappings.
C9_VersionMismatchIsMissing ==
    (loop.pc = "loaded" /\ VersionMismatch(cache_file)) =>
        /\ cache_obj = (IF pipeline = SCRAPE THEN load_cache(None)
                        ELSE load_cache_critics(None))
        /\ \A n \in DOMAIN cache_obj.maps : cache_obj.maps[n] = EmptyMap

C9_Witness ==
    /\ loop.pc = "loaded" /\ pipeline = SCRAPE
    /\ VersionMismatch(cache_file)
    /\ cache_file[1].version = Some(CACHE_VERSION + 1)
    /\ "tmdb_movie_data" \in DOMAIN cache_file[1].maps
    /\ cache_obj.maps["tmdb_movie_data"] = EmptyMap

\* C10: whatever the cache file holds, no run ends in an exception raised
\* by the use of the loaded cache.
C10_CacheFileNeverFatal == loop.pc # "fatal_cache"

\* Every entry of the in-memory cache is in the cache file.
OnDisk(file, obj) ==
    \A n \in DOMAIN obj.maps :
        \A k \in DOMAIN obj.maps[n] :
            /\ file # None
            /\ n \in DOMAIN file[1].maps
            /\ k \in DOMAIN file[1].maps[n]
            /\ file[1].maps[n][k] = obj.maps[n][k]

\* C8: once a multiple of FlushEvery films has been processed, the cache
\* file holds every entry produced so far, so that a crash loses only what
\* the films after that multiple produced.
C8_FlushedEveryN ==
    (pipeline = CURATED /\ loop.pc = "film" /\ loop.idx > 0
        /\ loop.idx % FlushEvery = 0)
        => OnDisk(cache_file, cache_obj)

\* The cache file holds an answer of tmdb_search for the key.
SearchOnDisk(key) ==
    /\ cache_file # None
    /\ cache_file[1].kind = "dict"
    /\ key \in DOMAIN MapOf(cache_file[1], "tmdb_search")

\* The search step of the film in hand is over.
Searched ==
    /\ pipeline = CURATED
    /\ loop.pc \in {"enrich", "fatal_search"} \/ (loop.pc = "film" /\ loop.error = MsgNoMatch)

\* C38: a film whose name|year key is in tmdb_search is not searched on
\* the API, in the run that stored the answer and in the runs that load it
\* from the cache file; when the stored answer is null the film is reported
\* as "No TMDb match" without a request.
C38_SearchAtMostOncePerKey ==
    /\ [](Searched /\ SearchOnDisk(loop.key) =>
            /\ ~loop.requested
            /\ MapOf(cache_file[1], "tmdb_search")[loop.key] = None
                  => loop.pc = "film" /\ loop.error = MsgNoMatch)
    /\ [][(loop.pc = "search" /\ loop'.requested)
            => ~(cache_obj.kind = "dict"
                 /\ loop.key \in DOMAIN MapOf(cache_obj, "tmdb_search"))]_vars

C38_Witness ==
    /\ Searched /\ SearchOnDisk(loop.key)
    /\ MapOf(cache_file[1], "tmdb_search")[loop.key] = None
    /\ loop.pc = "film" /\ loop.error = MsgNoMatch /\ ~loop.requested
    /\ loop.idx = NumItems

----------------------------------------------------------------------------
\* The Identifier Normalizer.

\* url.split("#", 1)[0]
RECURSIVE BeforeHash(_)
BeforeHash(u) ==
    IF u = <<>> \/ Head(u) = HASH THEN <<>>
    ELSE <<Head(u)>> \o BeforeHash(Tail(u))

EndsWithSlash(u) == Len(u) > 0 /\ u[Len(u)] = SLASH

normalize_letterboxd_url(url) ==
    LET stripped == Strip(url)
    IN  IF stripped = EmptyStr THEN stripped
        ELSE LET cut == BeforeHash(stripped)
             IN  IF EndsWithSlash(cut) THEN cut ELSE cut \o <<SLASH>>

\* film/([^/]+) at position p, case-sensitive; closed: the group must be
\* followed by "/".  <<>> when there is no match.
FilmSlugFrom(u, p, closed) ==
    IF p + 2 <= Len(u) /\ u[p] = "film" /\ u[p + 1] = SLASH
       /\ RunEnd(u, p + 2) >= p + 2
       /\ (closed => RunEnd(u, p + 2) < Len(u))
    THEN SubSeq(u, p + 2, RunEnd(u, p + 2))
    ELSE <<>>

\* https?://letterboxd\.com/(?:[^/]+/)?film/([^/]+) matched at position i:
\* the optional user segment is tried first.
FilmMatchAt(u, i, closed) ==
    IF i + 1 <= Len(u) /\ u[i] = LB /\ u[i + 1] = SLASH
    THEN LET e == RunEnd(u, i + 2)
             withUser == IF e >= i + 2 /\ e + 1 <= Len(u) /\ u[e + 1] = SLASH
                         THEN FilmSlugFrom(u, e + 2, closed) ELSE <<>>
         IN  IF withUser # <<>> THEN withUser ELSE FilmSlugFrom(u, i + 2, closed)
    ELSE <<>>

\* re.search: the leftmost match.
FilmSearch(u, closed) ==
    LET hits == { i \in 1..Len(u) : FilmMatchAt(u, i, closed) # <<>> }
    IN  IF hits = {} THEN <<>>
        ELSE FilmMatchAt(u, CHOOSE i \in hits : \A j \in hits : i <= j, closed)

\* f"https://letterboxd.com/film/{slug}/"
Canonical(slug) == <<LB, SLASH, "film", SLASH>> \o slug \o <<SLASH>>

\* A canonicalizer that keeps the user segment of a user-scoped URL.
canonicalize_keeping_user(url) ==
    LET u == normalize_letterboxd_url(url)
    IN  IF FilmSearch(u, TRUE) = <<>> THEN EmptyStr ELSE u

canonicalize_letterboxd_film_url(url) ==
    LET slug == FilmSearch(normalize_letterboxd_url(url), TRUE)
    IN  IF slug = <<>> THEN EmptyStr ELSE Canonical(slug)

\* resolve_letterboxd_film_url, its result in the ret of what the short-link
\* expansion came to.
resolve_letterboxd_film_url(url, m, h, g) ==
    LET stripped == Strip(url)
        r == IF HasBoxdSlash(stripped) THEN expand_boxd_shortlink(stripped, m, h, g)
             ELSE Returned(stripped, m, <<>>)
    IN  IF stripped = EmptyStr THEN Returned(stripped, m, <<>>)
        ELSE IF r.raised THEN r
        ELSE [r EXCEPT !.ret =
                canonicalize_letterboxd_film_url(normalize_letterboxd_url(r.ret))]

\* "boxd.it" in url
HasBoxd(url) == \E i \in 1..Len(url) : url[i] = BOXD

\* canonicalize of enrich_critics_list; None is <<>>.
canonicalize(url, m, h, g) ==
    LET stripped == Strip(url)
        r == IF HasBoxd(stripped) THEN expand_shortlink_critics(stripped, m, h, g)
             ELSE Returned(stripped, m, <<>>)
        slug == FilmSearch(r.ret, FALSE)
    IN  IF stripped = EmptyStr THEN Returned(None, m, <<>>)
        ELSE [r EXCEPT !.ret = IF slug # <<>> THEN Canonical(slug) ELSE None]

\* The film references the normalizers are applied to: a film by its slug,
\* canonical or under a user, followed by nothing, a slash, a fragment or a
\* query string; and strings that are no film reference.
Slugs == {"heat", "film", "parasite-2019"}

Scopes == { <<>>, <<"kat", SLASH>>, <<"film", SLASH>> }

Noises == { <<>>, <<SLASH>>, <<HASH, "top">>, <<SLASH, HASH, "top">>,
            <<QMARK, "ref=x">>, <<SLASH, QMARK, "ref=x">> }

FilmUrl(scope, slug) == <<LB, SLASH>> \o scope \o <<"film", SLASH, slug>>

Input(url, slug, noise) == [url |-> url, slug |-> slug, noise |-> noise]

FilmInputs ==
    { Input(FilmUrl(scope, slug) \o noise, slug, noise) :
        scope \in Scopes, slug \in Slugs, noise \in Noises }

OtherInputs ==
    { Input(u, "", <<>>) :
        u \in { EmptyStr, <<SP>>, <<"x", SP, SLASH>>,
                <<LB, SLASH, "kat", SLASH, "list", SLASH>>,
                <<SP, LB, SLASH, "film", SLASH, "heat", SLASH, SP>> } }

LinkInputs == { Input(<<BOXD, SLASH, "abc">>, "", <<>>) }

\* What shortlink_to_film can hold for the short link when it is resolved.
LinkCaches ==
    {EmptyMap} \cup { Put(EmptyMap, <<BOXD, SLASH, "abc">>, d) : d \in Dests }

\* The reference in hand, before a normalizer is applied to it.
Pending(in) == [NoNorm EXCEPT !.url = in.url, !.slug = in.slug, !.noise = in.noise]

Normalized(fn, dest, out, again, raised) ==
    norm' = [norm EXCEPT !.fn = fn, !.dest = dest, !.out = out, !.again = again,
                         !.raised = raised]

CanonicalizeLetterboxdFilmUrl ==
    /\ pipeline = SCRAPE
    /\ norm.fn = "none"
    /\ LET out == canonicalize_letterboxd_film_url(norm.url)
       IN  Normalized("canonicalize_letterboxd_film_url", norm.url, out,
                      canonicalize_letterboxd_film_url(out), FALSE)
    /\ UNCHANGED <<pipeline, resolveVars, outsideNorm>>

NormalizeUrl ==
    /\ pipeline = CURATED
    /\ norm.fn = "none"
    /\ LET out == normalize_url(norm.url)
       IN  Normalized("normalize_url", norm.url, out, normalize_url(out), FALSE)
    /\ UNCHANGED <<pipeline, resolveVars, outsideNorm>>

\* The outcomes of the requests of a call: only a short link that is not
\* cached issues any.
RequestOutcomes(url) ==
    IF url \in Links /\ ~CachedDest(shortlink_to_film, url)
    THEN NetOutcomes \X NetOutcomes ELSE {<<Raise, Raise>>}

ResolveLetterboxdFilmUrl ==
    /\ pipeline = SCRAPE
    /\ norm.fn = "none"
    /\ \E hg \in RequestOutcomes(norm.url) :
          LET r == resolve_letterboxd_film_url(norm.url, shortlink_to_film, hg[1], hg[2])
              e == IF norm.url \in Links
                   THEN expand_boxd_shortlink(norm.url, shortlink_to_film, hg[1], hg[2])
                   ELSE Returned(Strip(norm.url), shortlink_to_film, <<>>)
          IN  /\ shortlink_to_film' = r.map
              /\ Normalized("resolve_letterboxd_film_url",
                            IF e.raised THEN EmptyStr ELSE e.ret,
                            IF r.raised THEN EmptyStr ELSE r.ret,
                            IF r.raised THEN EmptyStr
                            ELSE canonicalize_letterboxd_film_url(r.ret),
                            r.raised)
    /\ UNCHANGED <<pipeline, call, outsideNorm>>

Canonicalize ==
    /\ pipeline = CRITICS
    /\ norm.fn = "none"
    /\ \E hg \in RequestOutcomes(norm.url) :
          LET r == canonicalize(norm.url, shortlink_to_film, hg[1], hg[2])
              e == IF norm.url \in Links
                   THEN expand_shortlink_critics(norm.url, shortlink_to_film, hg[1], hg[2])
                   ELSE Returned(Strip(norm.url), shortlink_to_film, <<>>)
          IN  /\ shortlink_to_film' = r.map
              /\ Normalized("canonicalize", e.ret, r.ret,
                            canonicalize(r.ret, r.map, Raise, Raise).ret, FALSE)
    /\ UNCHANGED <<pipeline, call, outsideNorm>>

\* Every script, given every reference, a short link under every cache.
InitNormalize ==
    /\ pipeline \in {SCRAPE, CRITICS, CURATED}
    /\ ParkScrape /\ ParkEnrich /\ ParkFlush /\ ParkRun /\ ParkStage
    /\ ParkMember /\ ParkList /\ ParkSync /\ ParkMain
    /\ call = NoCall
    /\ \E in \in FilmInputs \cup OtherInputs \cup LinkInputs :
          /\ norm = Pending(in)
          /\ shortlink_to_film \in IF in.url \in Links THEN LinkCaches ELSE {EmptyMap}

NextNormalize ==
    \/ CanonicalizeLetterboxdFilmUrl \/ NormalizeUrl
    \/ ResolveLetterboxdFilmUrl \/ Canonicalize

SpecNormalize == InitNormalize /\ [][NextNormalize]_vars

\* The canonical and the user-scoped URL of the film with slug s.
PlainForms(s) == { FilmUrl(scope, s) \o <<SLASH>> : scope \in Scopes }

\* C11: the canonical URL of a film, a user-scoped URL of it, and a short
\* link that resolved to either, all resolve to https://letterboxd.com/film/s/.
C11_SameIdentifierForAllForms ==
    \A s \in Slugs :
        (norm.fn \in {"resolve_letterboxd_film_url", "canonicalize"}
            /\ ~norm.raised /\ norm.dest \in PlainForms(s))
            => norm.out = Canonical(<<s>>)

C11_Witness ==
    /\ norm.fn = "resolve_letterboxd_film_url"
    /\ norm.url \in Links
    /\ norm.dest = FilmUrl(<<"kat", SLASH>>, "parasite-2019") \o <<SLASH>>
    /\ norm.out = Canonical(<<"parasite-2019">>)

\* C12: with or without a trailing slash, a #fragment or a ?query string, a
\* film URL is mapped to the canonical identifier of the film.
C12_NoiseCollapses ==
    (norm.fn \in {"canonicalize_letterboxd_film_url", "canonicalize", "normalize_url"}
        /\ norm.slug # "")
        => norm.out = Canonical(<<norm.slug>>)

\* C13: a canonical identifier is returned unchanged, and normalizing the
\* result of a normalization changes nothing.
C13_Idempotent ==
    norm.fn \in {"canonicalize_letterboxd_film_url", "normalize_url"}
        => /\ norm.again = norm.out
           /\ (\E s \in Slugs : norm.url = Canonical(<<s>>)) => norm.out = norm.url

----------------------------------------------------------------------------
\* The worker pool of a concurrent stage, ThreadPoolExecutor(max_workers=10),
\* by the number of futures in each state.

NumWorkItems == 11

\* A pool that starts a thread for every submitted item.
WorkerAlwaysFree(p) == TRUE

\* The pool runs a submitted item only on one of its max_workers threads.
WorkerFree(p) == p.running < MAX_WORKERS

PoolStart ==
    /\ pool.pending > 0
    /\ WorkerFree(pool)
    /\ pool' = [pool EXCEPT !.pending = @ - 1, !.running = @ + 1]
    /\ UNCHANGED <<pipeline, resolveVars, scrapeVars, enrichVars, flushVars, runVars,
                   normVars, memberVars, listVars, syncVars, mainVars, urlset, uri_map, stage, net>>

PoolFinish ==
    /\ pool.running > 0
    /\ pool' = [pool EXCEPT !.running = @ - 1, !.done = @ + 1]
    /\ UNCHANGED <<pipeline, resolveVars, scrapeVars, enrichVars, flushVars, runVars,
                   normVars, memberVars, listVars, syncVars, mainVars, urlset, uri_map, stage, net>>

\* as_completed hands a finished future to the loop of the main thread.
PoolCollect ==
    /\ pool.done > 0
    /\ pool' = [pool EXCEPT !.done = @ - 1, !.collected = @ + 1]
    /\ completed' = completed + 1
    /\ progress' = Append(progress, completed + 1)
    /\ UNCHANGED <<pipeline, resolveVars, film_to_tmdb, cached_at_start, page, index,
                   task, results, doneq, fetched, enrichVars, flushVars, runVars,
                   normVars, memberVars, listVars, syncVars, mainVars, urlset, uri_map, stage, net>>

\* Either stage, over every number of work items.
InitPool ==
    /\ pipeline = SCRAPE
    /\ ParkResolve /\ ParkScrape /\ ParkEnrich /\ ParkFlush /\ ParkRun /\ ParkNorm /\ ParkMember /\ ParkList /\ ParkSync /\ ParkMain
    /\ urlset = {} /\ uri_map = EmptyMap /\ stage = NoStage /\ net = EmptyMap
    /\ \E n \in 1..NumWorkItems, st \in {"resolve", "letterboxd_scrape"} :
          pool = [stage |-> st, pending |-> n, running |-> 0, done |-> 0,
                  collected |-> 0]

NextPool == PoolStart \/ PoolFinish \/ PoolCollect

SpecPool == InitPool /\ [][NextPool]_vars

\* C14: at most MAX_WORKERS (10) per-item operations are in flight at any
\* moment, whatever the number of work items.
C14_AtMostTenInFlight == pool.running <= MAX_WORKERS

C14_Witness ==
    /\ pool.running = MAX_WORKERS
    /\ pool.pending > 0
    /\ pool.pending + pool.running + pool.done + pool.collected > MAX_WORKERS

----------------------------------------------------------------------------
\* The two concurrent stages of main of scrape_tmdb_ids, one after the
\* other: the resolve stage of read_letterboxd_film_urls, then pass 1 of
\* enrich_with_tmdb over the URLs it returned.

NumRaw == 3

\* The raw references of the CSV, stripped and de-duplicated, in row order.
AllRaw == << <<BOXD, SLASH, "abc">>,
             <<LB, SLASH, "kat", SLASH, "film", SLASH, "parasite-2019", SLASH>>,
             <<BOXD, SLASH, "xyz">>,
             <<LB, SLASH, "film", SLASH, "heat">> >>

RawRefs == { AllRaw[i] : i \in 1..NumRaw }

Resp(url) == [kind |-> "resp", status |-> 200, url |-> url]

\* What the HEAD and the GET for a short link come to.
LinkOutcomes ==
    { <<Resp(<<LB, SLASH, "film", SLASH, "parasite-2019", SLASH>>), Raise>>,
      <<Raise, Resp(<<LB, SLASH, "film", SLASH, "heat">>)>>,
      <<Resp(<<LB, SLASH, "kat", SLASH, "list", SLASH, "top", SLASH>>), Raise>>,
      <<Raise, Raise>> }

\* urls.add(resolved) that keeps only the reference collected last.
AddUrlLastWins(set, resolved) == {resolved}

\* urls.add(resolved)
AddUrl(set, resolved) == set \cup {resolved}

\* uri_map[u] = u: the raw reference recorded in place of its canonical URL.
MapRawToItself(m, u, resolved) == IF resolved # EmptyStr THEN Put(m, u, u) ELSE m

\* uri_map[u] = resolved, done for every reference, resolved or not.
MapRawAlways(m, u, resolved) == Put(m, u, resolved)

\* if resolved: uri_map[u] = resolved
MapRaw(m, u, resolved) == IF resolved # EmptyStr THEN Put(m, u, resolved) ELSE m

StartResolve(u) ==
    /\ stage.pc \in {"resolve", "aborted"}
    /\ task[u] = "pending"
    /\ Cardinality(Running) < MAX_WORKERS
    /\ task' = [task EXCEPT ![u] = "running"]
    /\ UNCHANGED <<pipeline, resolveVars, film_to_tmdb, cached_at_start, page, index,
                   results, doneq, completed, progress, fetched, enrichVars, flushVars,
                   runVars, normVars, memberVars, listVars, syncVars, mainVars, stageVars>>

\* The worker runs resolve_one to its end; an exception stays in the future.
FinishResolve(u) ==
    /\ stage.pc \in {"resolve", "aborted"}
    /\ task[u] = "running"
    /\ LET r == resolve_letterboxd_film_url(u, shortlink_to_film, net[u][1], net[u][2])
       IN  /\ shortlink_to_film' = r.map
           /\ results' = Put(results, u, [url |-> u, resolved |-> r.ret,
                                          raised |-> r.raised])
    /\ task' = [task EXCEPT ![u] = "done"]
    /\ doneq' = Append(doneq, u)
    /\ UNCHANGED <<pipeline, call, film_to_tmdb, cached_at_start, page, index,
                   completed, progress, fetched, enrichVars, flushVars, runVars,
                   normVars, memberVars, listVars, syncVars, mainVars, stageVars>>

\* The main thread takes the next completed future: future.result() raises
\* what resolve_one raised, which ends the stage and the run.
CollectResolve ==
    /\ stage.pc = "resolve"
    /\ doneq # <<>>
    /\ LET u == Head(doneq)
           r == results[u]
       IN  IF r.raised
           THEN /\ stage' = [stage EXCEPT !.pc = "aborted", !.emitted = progress]
                /\ UNCHANGED <<urlset, uri_map, completed, progress, task>>
           ELSE /\ urlset' = IF r.resolved # EmptyStr THEN AddUrl(urlset, r.resolved)
                             ELSE urlset
                /\ uri_map' = MapRaw(uri_map, u, r.resolved)
                /\ completed' = completed + 1
                /\ progress' = Append(progress, completed + 1)
                /\ task' = [task EXCEPT ![u] = "collected"]
                /\ stage' = [stage EXCEPT !.order = Append(@, u)]
    /\ doneq' = Tail(doneq)
    /\ UNCHANGED <<pipeline, resolveVars, film_to_tmdb, cached_at_start, page, index,
                   results, fetched, enrichVars, flushVars, runVars, normVars, memberVars, listVars, syncVars, mainVars, pool, net>>

\* read_letterboxd_film_urls returns sorted(urls) and uri_map; main leaves
\* with 2 when there is no URL, and else builds the index and enters pass 1
\* of enrich_with_tmdb, where every film page comes to some outcome.
ReturnResolve ==
    /\ stage.pc = "resolve"
    /\ \A u \in DOMAIN task : task[u] = "collected"
    /\ stage' = [stage EXCEPT !.pc = IF urlset = {} THEN "exit" ELSE "returned",
                              !.emitted = progress,
                              !.order = <<>>,
                              !.reordered = (stage.order # SubSeq(AllRaw, 1, NumRaw))]
    /\ index' = build_index(urlset)
    /\ task' = [u \in urlset |-> "pending"]
    /\ page' \in [urlset -> PageOutcomes]
    /\ results' = EmptyMap
    /\ completed' = 0
    /\ progress' = <<>>
    /\ UNCHANGED <<pipeline, resolveVars, film_to_tmdb, cached_at_start, doneq, fetched,
                   enrichVars, flushVars, runVars, normVars, memberVars, listVars, syncVars, mainVars, urlset, uri_map, pool, net>>

\* shortlink_to_film as load_cache returned it: an entry of an earlier run
\* for a short link that is not in this CSV.
StoredBefore ==
    Single(<<BOXD, SLASH, "old">>, <<LB, SLASH, "film", SLASH, "alien", SLASH>>)

InitStages ==
    /\ pipeline = SCRAPE
    /\ shortlink_to_film = StoredBefore /\ call = NoCall
    /\ ParkEnrich /\ ParkFlush /\ ParkRun /\ ParkNorm /\ ParkMember /\ ParkList /\ ParkSync /\ ParkMain
    /\ film_to_tmdb = EmptyMap /\ cached_at_start = EmptyMap
    /\ page = EmptyMap /\ index = EmptyMap /\ fetched = {}
    /\ net \in [RawRefs -> LinkOutcomes]
    /\ \A u \in RawRefs : u \notin Links => net[u] = <<Raise, Raise>>
    /\ task = [u \in RawRefs |-> "pending"]
    /\ results = EmptyMap /\ doneq = <<>> /\ completed = 0 /\ progress = <<>>
    /\ urlset = {} /\ uri_map = EmptyMap /\ pool = NoPool
    /\ stage = [NoStage EXCEPT !.pc = "resolve", !.total = NumRaw]

NextStages ==
    \/ \E u \in RawRefs : StartResolve(u)
    \/ \E u \in RawRefs : FinishResolve(u)
    \/ CollectResolve
    \/ ReturnResolve
    \/ stage.pc = "returned" /\ \E u \in DOMAIN index : StartScrape(u)
    \/ stage.pc = "returned" /\ \E u \in DOMAIN index : FinishScrape(u)
    \/ stage.pc = "returned" /\ CollectScrape

SpecStages == InitStages /\ [][NextStages]_vars

\* What resolving u alone, before any other reference, returns.
ResolvedAlone(u) ==
    resolve_letterboxd_film_url(u, EmptyMap, net[u][1], net[u][2])

Resolvable == { u \in DOMAIN net : ~ResolvedAlone(u).raised
                                    /\ ResolvedAlone(u).ret # EmptyStr }

\* The index entry of u when u is scraped alone, before any other film.
ScrapedAlone(u) ==
    LET r == scrape_one(u, cached_at_start, page[u])
    IN  CollectIndex(build_index(urlset),
                     [url |-> r.url, tmdb_id |-> r.tmdb_id, error |-> r.error])[u]

AllCollected == \A u \in DOMAIN task : task[u] = "collected"

\* C15: whatever the order in which the workers finish, the resolve stage
\* returns the URL set and the raw-to-canonical mapping fixed by the
\* per-item outcomes, and the scrape stage leaves on each index entry the
\* tmdb_movie_id / tmdb_error fixed by the outcome of its page.
C15_OrderIndependent ==
    /\ stage.pc \in {"returned", "exit"} =>
          /\ urlset = { ResolvedAlone(u).ret : u \in Resolvable }
          /\ uri_map = [u \in Resolvable |-> ResolvedAlone(u).ret]
    /\ (stage.pc = "returned" /\ AllCollected) =>
          index = [u \in urlset |-> ScrapedAlone(u)]

C15_Witness ==
    /\ stage.pc = "returned" /\ stage.reordered /\ AllCollected
    /\ Cardinality(urlset) = 2
    /\ DOMAIN uri_map = RawRefs
    /\ \E u \in urlset : "tmdb_error" \in DOMAIN index[u]

\* C37: in the output of scrape_tmdb_ids the values of uriMap are exactly
\* the keys of movieIndex.
C37_UriMapValuesAreIndexKeys ==
    stage.pc = "returned" => { uri_map[u] : u \in DOMAIN uri_map } = DOMAIN index

C37_Witness ==
    /\ stage.pc = "returned" /\ AllCollected
    /\ Cardinality(DOMAIN uri_map) > Cardinality(DOMAIN index)
    /\ DOMAIN uri_map # RawRefs
    /\ { uri_map[u] : u \in DOMAIN uri_map } = DOMAIN index

\* The references whose worker has run to its end.
Finished ==
    IF stage.pc \in {"returned", "exit"} THEN RawRefs
    ELSE {u \in RawRefs : task[u] \in {"done", "collected"}}

\* The short links a worker resolved, each with the destination it got.
Written(u) == ResolvedAlone(u).map

\* C33: under every interleaving of the resolve workers, shortlink_to_film
\* holds the destination of every short link a finished worker resolved,
\* and every other entry is as it was; when the stage has ended this is so
\* for every worker.
C33_NoWriteLost ==
    stage.pc \in {"resolve", "aborted", "returned", "exit"} =>
        shortlink_to_film =
            Merge(StoredBefore,
                  [u \in {v \in Finished : v \in DOMAIN Written(v)} |-> Written(u)[u]])

C33_Witness ==
    /\ stage.pc = "returned" /\ stage.reordered
    /\ Cardinality({u \in RawRefs : u \in DOMAIN Written(u)}) >= 2
    /\ \A u \in RawRefs : u \in DOMAIN Written(u) =>
            u \in DOMAIN shortlink_to_film /\ shortlink_to_film[u] = Written(u)[u]
    /\ \A k \in DOMAIN StoredBefore : shortlink_to_film[k] = StoredBefore[k]

\* Every raw reference is a task of the resolve stage and every canonical
\* URL a task of the scrape stage (one future per key of the dict of
\* futures); a reference that resolved to no film is in uri_map or in the
\* index, and a film whose scrape found no ID carries tmdb_error.
SubmittedOnceAndRecorded ==
    /\ stage.pc = "resolve" => DOMAIN task = RawRefs
    /\ stage.pc = "returned" =>
          /\ DOMAIN task = urlset
          /\ \A u \in RawRefs \ Resolvable : u \in DOMAIN uri_map \/ u \in DOMAIN index
          /\ \A u \in urlset :
                (task[u] = "collected" /\ index[u].tmdb_movie_id = None)
                    => "tmdb_error" \in DOMAIN index[u]

\* A task that has run is not run again in its stage.
NeverAttemptedAgain ==
    stage'.pc = stage.pc =>
        \A u \in DOMAIN task :
            task[u] \in {"running", "done", "collected"}
                => u \in DOMAIN task' /\ task'[u] # "pending"
                   /\ (task[u] # "running" => task'[u] # "running")

\* C34: in a run of scrape_tmdb_ids every raw reference is submitted for
\* resolution once and every canonical URL for scraping once, a failed item
\* is recorded, and no item is attempted a second time.
C34_EachItemOnceFailuresRecorded ==
    []SubmittedOnceAndRecorded /\ [][NeverAttemptedAgain]_vars

\* C16: the PROGRESS values of a stage are 1, 2, 3, ... in the order the
\* items complete, and a stage that has ended printed the number of its
\* items last.
C16_ProgressCountsToTotal ==
    /\ \A i \in 1..Len(progress) : progress[i] = i
    /\ \A i \in 1..Len(stage.emitted) : stage.emitted[i] = i
    /\ stage.pc \in {"returned", "exit", "aborted"} => Len(stage.emitted) = stage.total
    /\ (stage.pc = "returned" /\ AllCollected) => Len(progress) = Cardinality(urlset)

----------------------------------------------------------------------------
\* What the Metadata Enricher does with the answers of the two endpoints.

Asked(e, request) == InSeq(request, e.requests)

ErrorMarkers == {"tmdb_api_error", "credits_error", "tmdb_error"}

\* C17: a film whose details request failed gets an error marker, and no
\* credits request is issued for it.
C17_NoCreditsAfterDetailsFailure ==
    \A i \in 1..Len(enriched) :
        (Asked(enriched[i], "details") /\ enriched[i].details = None)
            => /\ ~Asked(enriched[i], "credits")
               /\ (DOMAIN enriched[i].fields) \cap ErrorMarkers # {}

\* C18: a film whose details request succeeded and whose credits request
\* failed still gets a record made from the details, with directed_by_woman
\* and written_by_woman false and with a marker of the credits failure.
C18_PartialRecordOnCreditsFailure ==
    \A i \in 1..Len(enriched) :
        (enriched[i].details # None /\ Asked(enriched[i], "credits")
            /\ enriched[i].credits = None)
            => /\ "tmdb_data" \in DOMAIN enriched[i].fields
               /\ LET rec == enriched[i].fields.tmdb_data
                  IN  /\ "title" \in DOMAIN rec
                      /\ rec.title = enriched[i].details[1].title
                      /\ "directed_by_woman" \in DOMAIN rec
                      /\ "written_by_woman" \in DOMAIN rec
                      /\ ~rec.directed_by_woman /\ ~rec.written_by_woman
                      /\ (DOMAIN rec) \cap ErrorMarkers # {}

\* The film got a record made from the details body it was answered with.
RecordFromDetails(e) ==
    /\ e.details # None
    /\ "tmdb_data" \in DOMAIN e.fields
    /\ "is_american" \in DOMAIN e.fields.tmdb_data

\* C19: is_american is true exactly when "US" is a production-country
\* code, and is_english exactly when the original language is "en",
\* whatever the spoken languages.
C19_AmericanAndEnglishFlags ==
    \A i \in 1..Len(enriched) :
        RecordFromDetails(enriched[i]) =>
            LET d == enriched[i].details[1]
                rec == enriched[i].fields.tmdb_data
            IN  /\ rec.is_american =
                      (\E k \in 1..Len(d.production_countries) :
                          d.production_countries[k].iso_3166_1 = "US")
                /\ rec.is_english = (d.original_language = "en")

C19_Witness ==
    \E i \in 1..Len(enriched) :
        /\ RecordFromDetails(enriched[i])
        /\ enriched[i].details[1].original_language = "ko"
        /\ InSeq("en", enriched[i].details[1].spoken_languages)
        /\ enriched[i].fields.tmdb_data.is_american
        /\ ~enriched[i].fields.tmdb_data.is_english

\* The film got a record made from the crew list it was answered with.
RecordFromCredits(e) ==
    /\ e.credits # None
    /\ "tmdb_data" \in DOMAIN e.fields
    /\ "directed_by_woman" \in DOMAIN e.fields.tmdb_data

\* C20: directed_by_woman is true exactly when a crew member has the job
\* "Director" and gender 1, written_by_woman exactly when a crew member has
\* one of the jobs "Writer", "Screenplay", "Story", "Characters" and gender
\* 1; the jobs are compared as they are spelled.
C20_WomanFlags ==
    \A i \in 1..Len(enriched) :
        RecordFromCredits(enriched[i]) =>
            LET crew == enriched[i].credits[1]
                rec == enriched[i].fields.tmdb_data
            IN  /\ rec.directed_by_woman =
                      (\E k \in 1..Len(crew) :
                          crew[k].job = "Director" /\ crew[k].gender = 1)
                /\ rec.written_by_woman =
                      (\E k \in 1..Len(crew) :
                          /\ crew[k].job \in {"Writer", "Screenplay", "Story", "Characters"}
                          /\ crew[k].gender = 1)

C20_Witness ==
    \E i \in 1..Len(enriched) :
        /\ RecordFromCredits(enriched[i])
        /\ \E k \in 1..Len(enriched[i].credits[1]) :
              /\ enriched[i].credits[1][k].job = "director"
              /\ enriched[i].credits[1][k].gender = 1
        /\ ~enriched[i].fields.tmdb_data.directed_by_woman
        /\ enriched[i].fields.tmdb_data.written_by_woman

----------------------------------------------------------------------------
\* What the batch loop of the Metadata Enricher leaves for each film, and
\* when it waits.

\* C21: every film the metadata loop goes over is in the output, with its
\* record or with an error field.
C21_EveryFilmEnrichedOrMarked ==
    \A i \in 1..Len(enriched) :
        \/ "tmdb_data" \in DOMAIN enriched[i].fields
        \/ (DOMAIN enriched[i].fields) \cap ErrorMarkers # {}

\* C28: after every film for which a request went to the API, whether it
\* succeeded or failed, the loop sleeps before it goes on to the next film.
C28_DelayAfterEveryFetch ==
    \A i \in 1..Len(enriched) :
        enriched[i].requests # <<>> => enriched[i].slept

\* The film's record was taken from tmdb_movie_data.
ServedFromCache(e) ==
    /\ e.requests = <<>>
    /\ "tmdb_data" \in DOMAIN e.fields

\* C29: the loop does not sleep after a film whose record was taken from
\* tmdb_movie_data.
C29_NoDelayAfterCacheHit ==
    \A i \in 1..Len(enriched) :
        ServedFromCache(enriched[i]) => ~enriched[i].slept

C29_Witness ==
    /\ run = 2
    /\ \E i \in 1..Len(enriched) :
          /\ ServedFromCache(enriched[i])
          /\ first_run[i].slept
          /\ ~enriched[i].slept

\* C32: an entry of tmdb_movie_data, once there, is never overwritten or
\* altered by a later step of the run or of the next run.
C32_CachedRecordNeverOverwritten ==
    [][\A k \in DOMAIN tmdb_movie_data :
          k \in DOMAIN tmdb_movie_data' /\ tmdb_movie_data'[k] = tmdb_movie_data[k]]_vars

----------------------------------------------------------------------------
\* The raw-to-canonical mapping that main writes as uriMap.

----------------------------------------------------------------------------
\* When the short-link resolver writes to shortlink_to_film.

\* The outcome of the last request the call issued.
LastOutcome(cl) == IF cl.get.kind # "not sent" THEN cl.get ELSE cl.head

\* The call went to the network and ended in an exception or in a response
\* whose status is not 2xx.
FailedResolution(cl) ==
    /\ cl.requests # <<>>
    /\ \/ LastOutcome(cl).kind = "raise"
       \/ LastOutcome(cl).status \notin 200..299

\* C30: a resolution that ends in a timeout, a connection error or a
\* non-2xx response leaves shortlink_to_film as it was.
C30_MappingWrittenOnlyOnSuccess ==
    (call.fn # "none" /\ FailedResolution(call)) => shortlink_to_film = call.before

----------------------------------------------------------------------------
\* How the External-ID scraper reports the two ways of getting no ID.

\* C27: of two films whose pages were requested, one whose request failed
\* and one whose page was fetched and holds no TMDb link, each has an error
\* recorded, and the two errors differ.
C27_FetchFailureAndNoMatchDiffer ==
    \A u \in DOMAIN results, v \in DOMAIN results :
        (/\ u \in fetched /\ v \in fetched
         /\ page[u].kind = "http_error"
         /\ page[v].kind = "no_link")
            => /\ results[u].error # NoError
               /\ results[v].error # NoError
               /\ results[u].error # results[v].error

----------------------------------------------------------------------------
\* List membership: mark_list_membership of scrape_tmdb_ids, is_criterion /
\* is_black_director of enrich_critics_list, is_by_black_director of
\* enrich_curated_lists.  Each script has its own reference sets: the
\* resolved URLs of a list CSV (scrape_tmdb_ids), the slugs of a JSON file
\* (enrich_critics_list), or both (enrich_curated_lists).

\* str.lower() on a string of tokens.
LowerStr(u) == [i \in 1..Len(u) |-> Lower(u[i])]

\* extract_slug of enrich_critics_list: re.search(r"/film/([^/]+)", url),
\* and "" when there is no match.
extract_slug(url) ==
    LET hits == { i \in 1..Len(url) :
                     url[i] = SLASH /\ FilmSlugFrom(url, i + 1, FALSE) # <<>> }
    IN  IF hits = {} THEN <<>>
        ELSE FilmSlugFrom(url, (CHOOSE i \in hits : \A j \in hits : i <= j) + 1, FALSE)

\* extract_slug of enrich_curated_lists: match.group(1).lower(), or "".
extract_slug_curated(url) == LowerStr(CuratedFilmMatch(url))

\* The films tested and the reference sources.
MemberFilms == { Canonical(<<slug>>) : slug \in {"heat", "parasite-2019", "Parasite-2019"} }

RefRows == { Canonical(<<"parasite-2019">>), Canonical(<<"heat">>) }

RefSlugs == { <<"parasite-2019">>, <<"Parasite-2019">>, <<"heat">> }

Tested(fn, flag) == member' = [member EXCEPT !.fn = fn, !.flag = flag]

\* load_letterboxd_list, then mark_list_membership on the film's index
\* entry, which build_index made with is_in_criterion_collection False.
MarkListMembership ==
    /\ pipeline = SCRAPE
    /\ member.fn = "none"
    /\ LET list_urls == { canonicalize_letterboxd_film_url(normalize_letterboxd_url(Strip(r))) :
                            r \in member.ref_urls } \ {EmptyStr}
       IN  Tested("mark_list_membership", member.url \in list_urls)
    /\ UNCHANGED <<pipeline, outsideMember>>

\* criterion_slugs = set(json.loads(...)); "is_criterion": slug in
\* criterion_slugs, with slug = extract_slug(canonical) or "".
IsCriterion ==
    /\ pipeline = CRITICS
    /\ member.fn = "none"
    /\ Tested("is_criterion", extract_slug(member.url) \in member.ref_slugs)
    /\ UNCHANGED <<pipeline, outsideMember>>

\* load_black_director_sets, then the test of the main loop.
IsByBlackDirector ==
    /\ pipeline = CURATED
    /\ member.fn = "none"
    /\ LET slug_set == { LowerStr(sl) : sl \in member.ref_slugs }
           url_set == { LowerStr(normalize_url(r)) : r \in member.ref_urls } \ {EmptyStr}
           normalized_url == normalize_url(member.url)
           slug == extract_slug_curated(normalized_url)
       IN  Tested("is_by_black_director",
                  \/ LowerStr(normalized_url) \in url_set
                  \/ (slug # <<>> /\ slug \in slug_set))
    /\ UNCHANGED <<pipeline, outsideMember>>

InitMember ==
    /\ pipeline \in {SCRAPE, CRITICS, CURATED}
    /\ ParkResolve /\ ParkScrape /\ ParkEnrich /\ ParkFlush /\ ParkRun /\ ParkNorm
    /\ ParkStage /\ ParkMain /\ ParkList /\ ParkSync
    /\ \E url \in MemberFilms, rows \in SUBSET RefRows, slugs \in SUBSET RefSlugs :
          /\ pipeline = SCRAPE => slugs = {}
          /\ pipeline = CRITICS => rows = {}
          /\ member = [NoMember EXCEPT !.url = url, !.ref_urls = rows, !.ref_slugs = slugs]

NextMember == MarkListMembership \/ IsCriterion \/ IsByBlackDirector

SpecMember == InitMember /\ [][NextMember]_vars

\* C26: the flag is true exactly when the film's canonical identifier is in
\* the reference identifier set, compared as it is, or its slug is in the
\* reference slug set, compared without regard to case.
C26_MembershipByUrlThenSlug ==
    member.fn # "none" =>
        member.flag =
            (\/ member.url \in member.ref_urls
             \/ LowerStr(FilmSearch(member.url, TRUE))
                    \in { LowerStr(sl) : sl \in member.ref_slugs })

----------------------------------------------------------------------------
\* A run of main, from the command line to the exit status: the credential,
\* the input file, the rows of the input and what becomes of each, the
\* network requests issued, the files written.

MaxRows == 2

\* What becomes of one row: the resolution of its reference (a film URL, no
\* film URL, an exception), the scrape of its page, the title search
\* (enrich_curated_lists), the details and credits fetch.
ItemOutcome(resolve, pg, search, api) ==
    [resolve |-> resolve, page |-> pg, search |-> search, api |-> api]

ItemOutcomes ==
    { ItemOutcome("film", "id", "id", "ok"),
      ItemOutcome("none", "id", "id", "ok"),
      ItemOutcome("raise", "id", "id", "ok"),
      ItemOutcome("film", "fail", "none", "ok"),
      ItemOutcome("film", "id", "raise", "ok"),
      ItemOutcome("film", "id", "id", "fail") }

\* An exception nobody catches ends the interpreter with status 1.
UNCAUGHT == 1

Exit(n) == main' = [main EXCEPT !.pc = "exit", !.status = Some(n)]

Count(items, Test(_)) == Len(SelectSeq(items, Test))

\* parse_args and the credential: enrich_critics_list and
\* enrich_curated_lists return 1 without one; scrape_tmdb_ids only reads
\* the environment variable.  Then the cache is loaded, which writes nothing.
MainStart ==
    /\ main.pc = "start"
    /\ IF pipeline \in {CRITICS, CURATED} /\ ~main.key
       THEN Exit(1)
       ELSE main' = [main EXCEPT !.pc = "read"]
    /\ UNCHANGED <<pipeline, outsideMain>>

\* scrape_tmdb_ids: read_letterboxd_film_urls up to the resolve stage.
MainReadCsv ==
    /\ pipeline = SCRAPE
    /\ main.pc = "read"
    /\ IF main.input \in {"missing", "no_header"} THEN Exit(UNCAUGHT)
       ELSE IF main.items = <<>> THEN Exit(2)
       ELSE main' = [main EXCEPT !.pc = "resolve", !.i = 1]
    /\ UNCHANGED <<pipeline, outsideMain>>

\* scrape_tmdb_ids: one future of the resolve stage is collected; after the
\* last one main returns 2 when no reference resolved.
MainResolve ==
    /\ pipeline = SCRAPE
    /\ main.pc = "resolve"
    /\ LET it == main.items[main.i]
           kept == main.kept + (IF it.resolve = "film" THEN 1 ELSE 0)
       IN  IF it.resolve = "raise"
           THEN main' = [main EXCEPT !.pc = "exit", !.status = Some(UNCAUGHT),
                                     !.requests = @ + 1]
           ELSE IF main.i < Len(main.items)
           THEN main' = [main EXCEPT !.i = @ + 1, !.kept = kept]
           ELSE IF kept = 0 THEN Exit(2)
           ELSE main' = [main EXCEPT !.pc = "enrich", !.kept = kept]
    /\ UNCHANGED <<pipeline, outsideMain>>

\* The requests enrich_with_tmdb issues for one film: its page, and with
\* an API key and an ID the details and, when they came, the credits.
RequestsScrape(it, key) ==
    IF it.resolve # "film" THEN 0
    ELSE 1 + (IF key /\ it.page = "id" THEN (IF it.api = "ok" THEN 2 ELSE 1) ELSE 0)

RECURSIVE SumRequestsScrape(_, _)
SumRequestsScrape(items, key) ==
    IF items = <<>> THEN 0
    ELSE RequestsScrape(Head(items), key) + SumRequestsScrape(Tail(items), key)

\* scrape_tmdb_ids: enrich_with_tmdb when --enrich-tmdb is given; no
\* failure of an item ends it.
MainEnrichWithTmdb ==
    /\ pipeline = SCRAPE
    /\ main.pc = "enrich"
    /\ main' = [main EXCEPT
                   !.pc = "write",
                   !.requests = @ + (IF main.enrich_tmdb
                                     THEN SumRequestsScrape(main.items, main.key)
                                     ELSE 0)]
    /\ UNCHANGED <<pipeline, outsideMain>>

\* enrich_critics_list: read_list_csv.  A file without a header line has no
\* row with a URL, and the run goes on with no rows.
MainReadList ==
    /\ pipeline = CRITICS
    /\ main.pc = "read"
    /\ IF main.input = "missing" THEN Exit(UNCAUGHT)
       ELSE main' = [main EXCEPT !.pc = "enrich", !.i = 1]
    /\ UNCHANGED <<pipeline, outsideMain>>

InOutputCritics(it) == it.resolve = "film" /\ it.page = "id" /\ it.api = "ok"

\* The page of a film whose URL resolved, and details and credits for one
\* whose page gave an ID.
RequestsCritics(it) ==
    IF it.resolve # "film" THEN 0 ELSE IF it.page = "id" THEN 3 ELSE 1

RECURSIVE SumRequestsCritics(_)
SumRequestsCritics(items) ==
    IF items = <<>> THEN 0
    ELSE RequestsCritics(Head(items)) + SumRequestsCritics(Tail(items))

\* enrich_critics_list: enrich; every failure skips the row.
MainEnrichCritics ==
    /\ pipeline = CRITICS
    /\ main.pc = "enrich"
    /\ main' = [main EXCEPT !.pc = "write",
                            !.kept = Count(main.items, InOutputCritics),
                            !.requests = @ + SumRequestsCritics(main.items)]
    /\ UNCHANGED <<pipeline, outsideMain>>

\* enrich_curated_lists: the input document; no films, no run.
MainLoadCurated ==
    /\ pipeline = CURATED
    /\ main.pc = "read"
    /\ IF main.input = "missing" \/ main.items = <<>> THEN Exit(1)
       ELSE main' = [main EXCEPT !.pc = "enrich", !.i = 1]
    /\ UNCHANGED <<pipeline, outsideMain>>

\* enrich_curated_lists: one film of the loop.  tmdb_search is called
\* outside any try.
MainFilmCurated ==
    /\ pipeline = CURATED
    /\ main.pc = "enrich"
    /\ LET it == main.items[main.i]
           last == main.i = Len(main.items)
           fetches == IF it.search = "id" THEN (IF it.api = "ok" THEN 2 ELSE 1) ELSE 0
       IN  IF it.search = "raise"
           THEN main' = [main EXCEPT !.pc = "exit", !.status = Some(UNCAUGHT),
                                     !.requests = @ + 1]
           ELSE main' = [main EXCEPT
                            !.i = IF last THEN @ ELSE @ + 1,
                            !.pc = IF last THEN "write" ELSE @,
                            !.kept = @ + 1,
                            !.requests = @ + 1 + fetches,
                            !.cache_written =
                                @ \/ (it.search = "id" /\ main.i % FlushEvery = 0)]
    /\ UNCHANGED <<pipeline, outsideMain>>

\* The end of main: the output document and the cache file are written,
\* and main returns 0.
MainWrite ==
    /\ main.pc = "write"
    /\ main' = [main EXCEPT !.pc = "exit", !.status = Some(0),
                            !.out_written = TRUE, !.cache_written = TRUE]
    /\ UNCHANGED <<pipeline, outsideMain>>

InitMain ==
    /\ pipeline \in {SCRAPE, CRITICS, CURATED}
    /\ ParkResolve /\ ParkScrape /\ ParkEnrich /\ ParkFlush /\ ParkRun /\ ParkNorm
    /\ ParkStage /\ ParkMember /\ ParkList /\ ParkSync
    /\ \E key \in BOOLEAN, enrich_tmdb \in BOOLEAN,
          input \in {"missing", "no_header", "rows"}, n \in 0..MaxRows :
          \E items \in [1..n -> ItemOutcomes] :
              /\ pipeline # SCRAPE => enrich_tmdb
              /\ pipeline = CURATED => input # "no_header"
              /\ input # "rows" => n = 0
              /\ main = [NoMain EXCEPT !.pc = "start", !.key = key,
                                       !.enrich_tmdb = enrich_tmdb,
                                       !.input = input, !.items = items]

NextMain ==
    \/ MainStart
    \/ MainReadCsv \/ MainResolve \/ MainEnrichWithTmdb
    \/ MainReadList \/ MainEnrichCritics
    \/ MainLoadCurated \/ MainFilmCurated
    \/ MainWrite

SpecMain == InitMain /\ [][NextMain]_vars

\* C22: without an API credential a run that is to enrich issues no network
\* request, writes neither the output nor the cache file, and ends with a
\* status other than 0.
C22_NoCredentialNoRun ==
    (main.pc # "idle" /\ ~main.key /\ main.enrich_tmdb) =>
        /\ main.requests = 0
        /\ ~main.out_written /\ ~main.cache_written
        /\ main.pc = "exit" => main.status # Some(0)

\* C23: when the export file is missing or has no header row, the run
\* aborts at once: no request, no output file, no cache file, and a status
\* other than 0.
C23_BadExportAbortsUnwritten ==
    main.input \in {"missing", "no_header"} =>
        /\ main.requests = 0
        /\ ~main.out_written /\ ~main.cache_written
        /\ main.pc = "exit" => main.status # Some(0)

\* C24: with a credential and a readable input with a header and rows, the
\* run ends with status 0 whatever became of its items.
C24_ExitZeroWhateverItemsDid ==
    (main.pc = "exit" /\ main.key /\ main.input = "rows" /\ main.items # <<>>)
        => main.status = Some(0)

----------------------------------------------------------------------------
\* The reference-list cache: load_letterboxd_list of scrape_tmdb_ids, called
\* twice with the same cache on the same list file.

MaxListRows == 2

ListPath == "/lists/criterion.csv"

\* uri_column or ''
NoColumn == ""

outsideList == <<call, scrapeVars, enrichVars, flushVars, runVars, normVars, memberVars,
                 mainVars, stageVars, syncVars>>

\* _list_cache_key that leaves the modification time out of the key.
list_cache_key_without_mtime(path, mtime, uri_column) == <<path, uri_column>>

\* _list_cache_key: the path, the modification time and the column, or the
\* path and the column when getmtime raised (mtime is None).
list_cache_key(path, mtime, uri_column) ==
    IF mtime = None THEN <<path, uri_column>> ELSE <<path, mtime[1], uri_column>>

NonEmptyStr(u) == u # EmptyStr

\* The de-duplication loop: first occurrences, in order.
RECURSIVE Dedup(_, _)
Dedup(raw, seen_raw) ==
    IF raw = <<>> THEN <<>>
    ELSE IF Head(raw) \in seen_raw THEN Dedup(Tail(raw), seen_raw)
    ELSE <<Head(raw)>> \o Dedup(Tail(raw), seen_raw \cup {Head(raw)})

\* sorted(resolved_urls): a list of the set's elements.
SortedList(set) ==
    CHOOSE seq \in [1..Cardinality(set) -> set] : { seq[i] : i \in 1..Len(seq) } = set

\* {str(u) for u in entry["resolved_urls"] if u}
UrlsOf(entry) ==
    { entry.resolved_urls[i] : i \in 1..Len(entry.resolved_urls) } \ {EmptyStr}

\* The loop that resolves the raw values one after the other: the URLs
\* found, shortlink_to_film after it, the number of calls of
\* resolve_letterboxd_film_url, and whether the last one raised.
RECURSIVE ResolveList(_, _, _, _)

\* One pass of the loop, r being what resolve_letterboxd_film_url came to.
ResolveNext(raw, r, nt, acc) ==
    IF r.raised
    THEN [acc EXCEPT !.map = r.map, !.calls = @ + 1, !.raised = TRUE]
    ELSE ResolveList(Tail(raw), r.map, nt,
             [acc EXCEPT !.urls = IF r.ret # EmptyStr THEN @ \cup {r.ret} ELSE @,
                         !.calls = @ + 1])

ResolveList(raw, m, nt, acc) ==
    IF raw = <<>> THEN [acc EXCEPT !.map = m]
    ELSE ResolveNext(raw,
             resolve_letterboxd_film_url(Head(raw), m, nt[Head(raw)][1], nt[Head(raw)][2]),
             nt, acc)

Listed(urls, lc, m, calls, hit, raised) ==
    [urls |-> urls, list_cache |-> lc, map |-> m, calls |-> calls, hit |-> hit,
     raised |-> raised]

\* load_letterboxd_list for a file that exists, called with a cache.
\* The part after the fast path: the file is read and its values resolved,
\* r being what the resolve loop came to.
ReadAndResolve(key, header, raw, r, lc, m) ==
    IF ~header \/ raw = <<>> THEN Listed({}, lc, m, 0, FALSE, FALSE)
    ELSE IF r.raised THEN Listed({}, lc, r.map, r.calls, FALSE, TRUE)
    ELSE Listed(r.urls, Put(lc, key, [resolved_urls |-> SortedList(r.urls)]), r.map,
                r.calls, FALSE, FALSE)

RawValues(rows) ==
    Dedup(SelectSeq([i \in 1..Len(rows) |-> Strip(rows[i])], NonEmptyStr), {})

load_letterboxd_list(path, file, uri_column, lc, m, nt) ==
    LET key == list_cache_key(path, file.mtime, uri_column)
    IN  IF key \in DOMAIN lc /\ UrlsOf(lc[key]) # {}
        THEN Listed(UrlsOf(lc[key]), lc, m, 0, TRUE, FALSE)
        ELSE ReadAndResolve(key, file.header, RawValues(file.rows),
                 ResolveList(RawValues(file.rows), m, nt,
                     [urls |-> {}, map |-> m, calls |-> 0, raised |-> FALSE]),
                 lc, m)

\* What a call comes to, as the caller sees it.
Outcome(r) == Some([urls |-> r.urls, calls |-> r.calls, hit |-> r.hit, raised |-> r.raised])

\* The state after a call that came to r.
Loaded(r, field) ==
    /\ list_cache' = r.list_cache
    /\ shortlink_to_film' = r.map
    /\ listcall' = [listcall EXCEPT ![field] = Outcome(r),
                      !.pc = IF r.raised THEN "raised"
                             ELSE IF field = "first" THEN "loaded" ELSE "again"]
    /\ UNCHANGED <<pipeline, outsideList>>

LoadList(nt, field) ==
    Loaded(load_letterboxd_list(ListPath, listcall, NoColumn, list_cache,
                                shortlink_to_film, nt), field)

\* The first call: the criterion list of a run.
LoadListFirst ==
    /\ listcall.pc = "start"
    /\ LoadList(listcall.net1, "first")

\* The list file is written anew between the two calls.
TouchListFile ==
    /\ listcall.pc = "loaded"
    /\ ~listcall.touched
    /\ listcall' = [listcall EXCEPT !.mtime = Some(@[1] + 1), !.touched = TRUE]
    /\ UNCHANGED <<pipeline, shortlink_to_film, list_cache, outsideList>>

\* The second call, with the cache the first one left.
LoadListSecond ==
    /\ listcall.pc = "loaded"
    /\ LoadList(listcall.net2, "second")

\* The rows of a list file: up to MaxListRows values of the URI column.
ListRows == UNION { [1..n -> RawRefs] : n \in 0..MaxListRows }

LinkNets == { nt \in [RawRefs -> LinkOutcomes] :
                \A u \in RawRefs : u \notin Links => nt[u] = <<Raise, Raise>> }

InitList ==
    /\ pipeline = SCRAPE
    /\ ParkScrape /\ ParkEnrich /\ ParkFlush /\ ParkRun /\ ParkNorm /\ ParkStage
    /\ ParkMember /\ ParkMain /\ ParkSync
    /\ shortlink_to_film = EmptyMap /\ call = NoCall
    /\ list_cache = EmptyMap
    /\ \E header \in BOOLEAN, rows \in ListRows, net1 \in LinkNets, net2 \in LinkNets :
          /\ ~header => rows = <<>> /\ net1 = net2
          /\ listcall = [NoListCall EXCEPT !.pc = "start", !.header = header,
                                           !.rows = rows, !.mtime = Some(1),
                                           !.net1 = net1, !.net2 = net2]

NextList == LoadListFirst \/ TouchListFile \/ LoadListSecond

SpecList == InitList /\ [][NextList]_vars

\* C36 as stated: a second call on an unchanged file returns what the first
\* call returned and resolves nothing, whatever the file holds; after a
\* change of the modification time the stored entry is not found.
C36_SecondCallFromCache ==
    listcall.second # None =>
        /\ ~listcall.touched =>
              /\ listcall.second[1].urls = listcall.first[1].urls
              /\ listcall.second[1].calls = 0
        /\ listcall.touched => ~listcall.second[1].hit

\* C36, amended: the same for a file from which the first call resolved at
\* least one film URL or in which it found no value to resolve.
C36_SecondCallFromCacheIfResolved ==
    listcall.second # None =>
        /\ (~listcall.touched
              /\ (listcall.first[1].urls # {} \/ listcall.first[1].calls = 0)) =>
              /\ listcall.second[1].urls = listcall.first[1].urls
              /\ listcall.second[1].calls = 0
        /\ listcall.touched => ~listcall.second[1].hit

C36_Witness ==
    /\ listcall.second # None /\ ~listcall.touched
    /\ listcall.second[1].hit
    /\ listcall.first[1].calls = MaxListRows
    /\ listcall.second[1].urls = listcall.first[1].urls
    /\ \E i \in 1..Len(listcall.rows) :
          LET u == listcall.rows[i]
          IN  /\ resolve_letterboxd_film_url(u, EmptyMap, listcall.net1[u][1],
                                             listcall.net1[u][2]).ret # EmptyStr
              /\ listcall.net2[u] = <<Raise, Raise>>

----------------------------------------------------------------------------
\* sync_kat_from_rss: the entries of the RSS feed that the diary CSV lacks
\* are appended to it.  A cell of a row is a string of tokens (a name, a
\* year) or a date: the day's number, 0 for a cell that holds no date.

MaxDiary == 2

MaxFeed == 3

\* the default of --stop-after
DefaultStopAfter == 2

\* datetime(1900, 1, 1), older than every date of a row
VeryOld == 0

outsideSync == <<resolveVars, scrapeVars, enrichVars, flushVars, runVars, normVars,
                 stageVars, memberVars, listVars, mainVars>>

DIARY_HEADERS == {"Date", "Name", "Year", "Watched Date"}

Row(name, year, date, watched) ==
    [h \in DIARY_HEADERS |->
        CASE h = "Name" -> name
          [] h = "Year" -> year
          [] h = "Date" -> date
          [] OTHER -> watched]

\* A film, the same film named in lower case with a blank before it, another
\* film, and a row without name.
SyncRows ==
    { Row(<<"Heat">>, <<"1995">>, 3, 3), Row(<<SP, "heat">>, <<"1995">>, 1, 0),
      Row(<<"Ran">>, <<"1985">>, 2, 2), Row(<<>>, <<>>, 0, 0) }

\* norm: (s or "").strip()
norm_str(s) == Strip(s)

\* key_name_year that compares the names as they are spelled.
key_name_year_as_spelled(row) == <<norm_str(row["Name"]), norm_str(row["Year"])>>

\* key_name_year
key_name_year(row) == <<LowerStr(norm_str(row["Name"])), norm_str(row["Year"])>>

\* parse_iso_date: None for a cell without date.
parse_iso_date(cell) == IF cell = 0 THEN None ELSE Some(cell)

\* diary_recency_key: Watched Date, else Date, else very old.
diary_recency_key(row) ==
    IF parse_iso_date(row["Watched Date"]) # None THEN parse_iso_date(row["Watched Date"])[1]
    ELSE IF parse_iso_date(row["Date"]) # None THEN parse_iso_date(row["Date"])[1]
    ELSE VeryOld

\* sorted(rows, key=diary_recency_key, reverse=True): most recent first,
\* rows of the same day in the order they had.
InsertByRecency(sorted, row) ==
    LET p == Cardinality({ i \in 1..Len(sorted) :
                             diary_recency_key(sorted[i]) >= diary_recency_key(row) })
    IN  SubSeq(sorted, 1, p) \o <<row>> \o SubSeq(sorted, p + 1, Len(sorted))

RECURSIVE SortByRecency(_, _)
SortByRecency(rows, sorted) ==
    IF rows = <<>> THEN sorted
    ELSE SortByRecency(Tail(rows), InsertByRecency(sorted, Head(rows)))

HasName(row) == norm_str(row["Name"]) # EmptyStr

Keys(rows) == [i \in 1..Len(rows) |-> key_name_year(rows[i])]

\* project(headers, row)
project(headers, row) == [h \in headers |-> IF h \in DOMAIN row THEN row[h] ELSE EmptyStr]

\* What the loop noted of a feed entry: whether it matched the diary entry
\* at recent_idx, the count after it, whether the loop broke at it, whether
\* it was appended.
Seen(k, matched, consecutive, stopped, appended) ==
    [key |-> k, matched |-> matched, consecutive |-> consecutive, stopped |-> stopped,
     appended |-> appended]

\* The body of the loop in which an entry that does not match leaves the
\* count as it is.
ScanWithoutReset(st, r) ==
    LET k == key_name_year(r)
        matched == st.recent_idx < Len(st.recent_seq) /\ k = st.recent_seq[st.recent_idx + 1]
        consecutive == IF matched THEN st.consecutive + 1 ELSE st.consecutive
        stopped == matched /\ consecutive >= st.stop_after
        appended == ~stopped /\ k[1] # EmptyStr /\ k \notin st.diary_set
    IN  [st EXCEPT !.consecutive = consecutive,
                   !.recent_idx = IF matched THEN @ + 1 ELSE @,
                   !.diary_set = IF appended THEN @ \cup {k} ELSE @,
                   !.new_keys = IF appended THEN @ \cup {k} ELSE @,
                   !.new_rows = IF appended THEN Append(@, r) ELSE @,
                   !.seen = Append(@, Seen(k, matched, consecutive, stopped, appended)),
                   !.pc = IF stopped THEN "scanned" ELSE "scan"]

\* The body of the loop over rss_rows for the entry r.
Scan(st, r) ==
    LET k == key_name_year(r)
        matched == st.recent_idx < Len(st.recent_seq) /\ k = st.recent_seq[st.recent_idx + 1]
        consecutive == IF matched THEN st.consecutive + 1 ELSE 0
        stopped == matched /\ consecutive >= st.stop_after
        appended == ~stopped /\ k[1] # EmptyStr /\ k \notin st.diary_set
    IN  [st EXCEPT !.consecutive = consecutive,
                   !.recent_idx = IF matched THEN @ + 1 ELSE @,
                   !.diary_set = IF appended THEN @ \cup {k} ELSE @,
                   !.new_keys = IF appended THEN @ \cup {k} ELSE @,
                   !.new_rows = IF appended THEN Append(@, r) ELSE @,
                   !.seen = Append(@, Seen(k, matched, consecutive, stopped, appended)),
                   !.pc = IF stopped THEN "scanned" ELSE "scan"]

\* main up to the loop: the feed (cut at --limit) and the two CSV files are
\* read, and the key set and the most-recent-first key list are built.
SyncStart ==
    /\ sync.pc = "start"
    /\ LET diary_sorted == SortByRecency(sync.diary_rows, <<>>)
       IN  sync' = [sync EXCEPT
                !.pc = "scan",
                !.diary_set = { key_name_year(sync.diary_rows[i]) :
                                  i \in { j \in 1..Len(sync.diary_rows) :
                                            HasName(sync.diary_rows[j]) } },
                !.diary_sorted = diary_sorted,
                !.recent_seq = Keys(SelectSeq(diary_sorted, HasName))]
    /\ UNCHANGED <<pipeline, outsideSync>>

\* One pass of the loop.
SyncScan ==
    /\ sync.pc = "scan"
    /\ Len(sync.seen) < Len(sync.rss_rows)
    /\ sync' = Scan(sync, sync.rss_rows[Len(sync.seen) + 1])
    /\ UNCHANGED <<pipeline, outsideSync>>

\* The loop ends with the last entry.
SyncScanned ==
    /\ sync.pc = "scan"
    /\ Len(sync.seen) = Len(sync.rss_rows)
    /\ sync' = [sync EXCEPT !.pc = "scanned"]
    /\ UNCHANGED <<pipeline, outsideSync>>

\* The watchlist that main reads.
WatchRows == << Row(<<"Heat">>, <<"1995">>, 0, 0), Row(<<"Ran">>, <<"1985">>, 0, 0) >>

NotNew(row) == key_name_year(row) \notin sync.new_keys

\* After the loop: the new diary and the filtered watchlist are made, and
\* written unless --dry-run is given.
SyncWrite ==
    /\ sync.pc = "scanned"
    /\ \E dry_run \in BOOLEAN :
          sync' = [sync EXCEPT
                !.pc = "done",
                !.diary_out = sync.diary_rows
                    \o [i \in 1..Len(sync.new_rows) |->
                            project(DIARY_HEADERS, sync.new_rows[i])],
                !.watch_out = SelectSeq(WatchRows, NotNew),
                !.written = ~dry_run]
    /\ UNCHANGED <<pipeline, outsideSync>>

\* The diary files and the feeds the script is run on.
DiaryFiles == UNION { [1..n -> SyncRows] : n \in 0..MaxDiary }

Feeds == UNION { [1..n -> SyncRows] : n \in 0..MaxFeed }

InitSync ==
    /\ pipeline = "sync_kat_from_rss"
    /\ ParkResolve /\ ParkScrape /\ ParkEnrich /\ ParkFlush /\ ParkRun /\ ParkNorm
    /\ ParkStage /\ ParkMember /\ ParkList /\ ParkMain
    /\ \E diary_rows \in DiaryFiles, rss_rows \in Feeds, stop_after \in 1..DefaultStopAfter :
          sync = [NoSync EXCEPT !.pc = "start", !.diary_rows = diary_rows,
                                !.rss_rows = rss_rows, !.stop_after = stop_after]

NextSync == SyncStart \/ SyncScan \/ SyncScanned \/ SyncWrite

SpecSync == InitSync /\ [][NextSync]_vars

\* The key of the claim: the name stripped and in lower case, and the year.
NameYear(row) == <<LowerStr(Strip(row["Name"])), Strip(row["Year"])>>

Appended == SubSeq(sync.diary_out, Len(sync.diary_rows) + 1, Len(sync.diary_out))

\* C39: the new diary is the old one, row for row, followed by feed entries
\* that have a name and whose (lower-cased name, year) key no row of the old
\* diary has; no two of the appended rows have the same key.
C39_DiaryOnlyAppended ==
    sync.pc = "done" =>
        /\ Len(sync.diary_out) >= Len(sync.diary_rows)
        /\ SubSeq(sync.diary_out, 1, Len(sync.diary_rows)) = sync.diary_rows
        /\ \A i \in 1..Len(Appended) :
              /\ Strip(Appended[i]["Name"]) # EmptyStr
              /\ \E j \in 1..Len(sync.rss_rows) : sync.rss_rows[j] = Appended[i]
              /\ \A j \in 1..Len(sync.diary_rows) :
                    NameYear(sync.diary_rows[j]) # NameYear(Appended[i])
              /\ \A j \in 1..Len(Appended) :
                    j # i => NameYear(Appended[j]) # NameYear(Appended[i])

C39_Witness ==
    /\ sync.pc = "done" /\ sync.written
    /\ Len(sync.diary_rows) = MaxDiary
    /\ Len(Appended) >= 1
    /\ \E i, j \in 1..Len(sync.rss_rows) :
          /\ i < j
          /\ sync.rss_rows[i] # sync.rss_rows[j]
          /\ NameYear(sync.rss_rows[i]) = NameYear(sync.rss_rows[j])
          /\ sync.seen[i].appended
    /\ \E i \in 1..Len(sync.rss_rows) :
          /\ Strip(sync.rss_rows[i]["Name"]) # EmptyStr
          /\ \E j \in 1..Len(sync.diary_rows) :
                NameYear(sync.diary_rows[j]) = NameYear(sync.rss_rows[i])

\* The number of the entries before entry i that matched.
MatchedBefore(i) == Cardinality({ j \in 1..(i - 1) : sync.seen[j].matched })

\* Entry i completes stop_after matches in a row.
CompletesRun(i) ==
    /\ i >= sync.stop_after
    /\ \A j \in (i - sync.stop_after + 1)..i : sync.seen[j].matched

\* C40: an entry matches when its key is that of the next entry of the
\* diary taken most recent first; the scan stops at the first entry that
\* completes stop_after matches in a row, that entry and the entries after
\* it are not appended, and an entry that does not match sets the count of
\* matches in a row to zero.
C40_StopsAtOverlap ==
    sync.pc \in {"scan", "scanned", "done"} =>
        /\ \A i \in 1..(Len(sync.diary_sorted) - 1) :
              diary_recency_key(sync.diary_sorted[i])
                  >= diary_recency_key(sync.diary_sorted[i + 1])
        /\ \A i \in 1..Len(sync.seen) :
              /\ sync.seen[i].matched <=>
                    /\ MatchedBefore(i) < Len(sync.recent_seq)
                    /\ NameYear(sync.rss_rows[i]) = sync.recent_seq[MatchedBefore(i) + 1]
              /\ sync.seen[i].stopped <=> CompletesRun(i)
              /\ sync.seen[i].stopped =>
                    /\ i = Len(sync.seen) /\ sync.pc # "scan"
                    /\ ~sync.seen[i].appended
              /\ ~sync.seen[i].matched => sync.seen[i].consecutive = 0
              /\ sync.seen[i].matched =>
                    sync.seen[i].consecutive
                        = (IF i = 1 THEN 0 ELSE sync.seen[i - 1].consecutive) + 1
        /\ Len(sync.new_rows) = Cardinality({ i \in 1..Len(sync.seen) : sync.seen[i].appended })
        /\ sync.pc # "scan" =>
              \/ Len(sync.seen) = Len(sync.rss_rows)
              \/ Len(sync.seen) > 0 /\ sync.seen[Len(sync.seen)].stopped

C40_Witness ==
    /\ sync.pc = "done" /\ sync.stop_after = DefaultStopAfter
    /\ Len(sync.seen) = MaxFeed /\ Len(sync.rss_rows) = MaxFeed
    /\ sync.seen[1].appended
    /\ sync.seen[2].matched /\ ~sync.seen[2].stopped
    /\ sync.seen[MaxFeed].stopped

====
